---------------------------- MODULE Spec2Model ----------------------------
(***************************************************************************)
(* A model of the cocos-mcp editor extension's TCP bridge                  *)
(* (packages/cocos-mcp/dist/main.js): the listening socket, the set of     *)
(* active sockets, each socket's line buffer and 'data' handler, the       *)
(* request/response cycle (handleRequest) and the method router (dispatch).*)
(*                                                                         *)
(* Conventions.                                                            *)
(*  - A JavaScript value that may be undefined is a sequence of length at  *)
(*    most one: << >> is undefined, <<v>> is the value v.                  *)
(*  - A JavaScript string that the code inspects (a method name, an error  *)
(*    message) is a sequence of one-character strings, so that startsWith  *)
(*    and slice are computed as the code computes them.  A literal of the  *)
(*    code that is only ever copied is one element of such a sequence.     *)
(*  - The bytes of a connection are a sequence of tokens (records with a   *)
(*    field t): the newline, a blank, a fragment of text that is not JSON, *)
(*    and complete JSON texts.  JSONParse gives each line its value or a   *)
(*    SyntaxError, as JSON.parse does.                                     *)
(*  - A response line written to a socket is the function from the keys    *)
(*    JSON.stringify emits to their values: a key whose value is undefined *)
(*    is dropped, as JSON.stringify drops it.                              *)
(***************************************************************************)
EXTENDS Integers, Sequences, FiniteSets, TLC

--------------------------------------------------------------------------
(* Bounds of the exploration.                                              *)

\* Complete lines the clients send, over all connections (Spec).
MaxLines == 2
\* Tokens the client sends on the connection (SpecFrame).
MaxBytes == 5
\* Tokens that can wait, undelivered, on one connection: the longest chunk
\* a data event delivers.
MaxChunk == 5
\* Pieces a method name is concatenated from (SpecDispatch).
MaxPieces == 2
\* Listeners startServer makes.
MaxStarts == 2
\* Characters of the port override (SpecPort).
MaxPortText == 5
\* Calls of the scene script's methods (SpecScene).
MaxCalls == 2

--------------------------------------------------------------------------
(* JavaScript strings and values.                                          *)

UNDEF == << >>
Some(v) == <<v>>

\* String.prototype.startsWith(p)
StartsWith(s, p) ==
    /\ Len(s) >= Len(p)
    /\ SubSeq(s, 1, Len(p)) = p

\* String.prototype.slice(n), 0 <= n
Slice(s, n) == SubSeq(s, n + 1, Len(s))

pingName == <<"p", "i", "n", "g">>
executeName == <<"e", "x", "e", "c", "u", "t", "e">>
scenePrefix == <<"s", "c", "e", "n", "e", ".">>
assetsPrefix == <<"a", "s", "s", "e", "t", "s", ".">>
editorPrefix == <<"e", "d", "i", "t", "o", "r", ".">>
listNodesName == <<"l", "i", "s", "t", "N", "o", "d", "e", "s">>


\* String(err) in place of err.message.
ErrTextOfString(message) ==
    IF message = << >> THEN <<"Error">> ELSE <<"Error: ">> \o message

\* `${err?.message || String(err)}` for a thrown Error: an empty message is
\* falsy, and String(new Error("")) is "Error".
ErrText(message) == IF message = << >> THEN <<"Error">> ELSE message

--------------------------------------------------------------------------
(* JSON values.  A parsed object keeps the three fields the code reads,    *)
(* each undefined when the key is missing.                                 *)

JNull == [type |-> "null"]
JObject(id, method, params) ==
    [type |-> "object", id |-> id, method |-> method, params |-> params]

\* A parsed array, as params may be.
JArray(items) == [type |-> "array", items |-> items]

\* req.<key>: undefined on a value that has no such property.
ReqField(v, key) == IF v.type = "object" THEN v[key] ELSE UNDEF

\* params values of the explored requests.  scope and code hold the string
\* of that property, and are undefined when the property is missing or is
\* no string (typeof ... !== "string").
emptyParams == [type |-> "object", scope |-> UNDEF, code |-> UNDEF]
mainNoReturn == [type |-> "object", scope |-> Some("main"), code |-> Some("")]
mainReturn == [type |-> "object", scope |-> Some("main"), code |-> Some("return 'ok'")]
sceneCode == [type |-> "object", scope |-> Some("scene"), code |-> Some("")]
otherScope == [type |-> "object", scope |-> Some("panel"), code |-> Some("")]
scopeOnly == [type |-> "object", scope |-> Some("main"), code |-> UNDEF]
codeOnly == [type |-> "object", scope |-> UNDEF, code |-> Some("return 'ok'")]

--------------------------------------------------------------------------
(* The method router.  The outcome of an async call is one of              *)
(*   [kind |-> "return", value |-> v]    the promise is fulfilled with v   *)
(*   [kind |-> "throw", message |-> m]   it is rejected with Error(m)      *)
(*   [kind |-> "host", call |-> c]       it waits for the host editor      *)

Return(v) == [kind |-> "return", value |-> v]
Throw(m) == [kind |-> "throw", message |-> m]
Host(handler, method, params) ==
    [kind |-> "host",
     call |-> [handler |-> handler, method |-> method, params |-> params]]

\* The body the Function constructor compiles, run with (Editor, args).
RunMainCode(code) ==
    IF code = "return 'ok'" THEN Return(Some("ok")) ELSE Return(UNDEF)

\* args with an array always wrapped like any other value.
SceneArgsWrapped(params) ==
    IF params = UNDEF THEN << >> ELSE <<params[1]>>

\* Array.isArray(params) ? params : params !== undefined ? [params] : []
SceneArgs(params) ==
    IF params = UNDEF THEN << >>
    ELSE IF params[1].type = "array" THEN params[1].items
    ELSE <<params[1]>>

\* The request to the host names the scene script's method and its args.
sceneDispatch(method, params) ==
    [kind |-> "host",
     call |-> [handler |-> "scene", method |-> method, params |-> params,
               args |-> SceneArgs(params)]]

assetsDispatch(method, params) == Host("assets", method, params)

editorDispatch(method, params) == Host("editor", method, params)

\* execute without its last throw: any other scope runs in the main process.
executeOtherScopeInMain(params) ==
    IF \/ params = UNDEF
       \/ params[1].type # "object"
       \/ params[1].scope = UNDEF
       \/ params[1].code = UNDEF
    THEN Throw(<<"execute requires { scope, code, args? }">>)
    ELSE IF params[1].scope = Some("scene")
         THEN sceneDispatch(executeName, params)
    ELSE RunMainCode(params[1].code[1])

execute(params) ==
    IF \/ params = UNDEF
       \/ params[1].type # "object"
       \/ params[1].scope = UNDEF
       \/ params[1].code = UNDEF
    THEN Throw(<<"execute requires { scope, code, args? }">>)
    ELSE IF params[1].scope = Some("scene")
         THEN sceneDispatch(executeName, params)
    ELSE IF params[1].scope = Some("main")
         THEN RunMainCode(params[1].code[1])
    ELSE Throw(<<"Unknown execute scope: ", params[1].scope[1]>>)

\* dispatch with the message of the last throw lacking the method.
dispatchNoName(method, params) ==
    IF method = UNDEF
    THEN Throw(<<"Cannot read properties of undefined (reading 'startsWith')">>)
    ELSE IF method[1] = pingName THEN Return(Some("pong"))
    ELSE IF method[1] = executeName THEN execute(params)
    ELSE IF StartsWith(method[1], scenePrefix)
         THEN sceneDispatch(Slice(method[1], Len(scenePrefix)), params)
    ELSE IF StartsWith(method[1], assetsPrefix)
         THEN assetsDispatch(Slice(method[1], Len(assetsPrefix)), params)
    ELSE IF StartsWith(method[1], editorPrefix)
         THEN editorDispatch(Slice(method[1], Len(editorPrefix)), params)
    ELSE Throw(<<"Unknown method">>)

\* dispatch with the slices one short: the leaf keeps the dot.
dispatchKeepsDot(method, params) ==
    IF method = UNDEF
    THEN Throw(<<"Cannot read properties of undefined (reading 'startsWith')">>)
    ELSE IF method[1] = pingName THEN Return(Some("pong"))
    ELSE IF method[1] = executeName THEN execute(params)
    ELSE IF StartsWith(method[1], scenePrefix)
         THEN sceneDispatch(Slice(method[1], Len(scenePrefix) - 1), params)
    ELSE IF StartsWith(method[1], assetsPrefix)
         THEN assetsDispatch(Slice(method[1], Len(assetsPrefix) - 1), params)
    ELSE IF StartsWith(method[1], editorPrefix)
         THEN editorDispatch(Slice(method[1], Len(editorPrefix) - 1), params)
    ELSE Throw(<<"Unknown method: ">> \o method[1])

\* dispatch with a ping whose answer depends on the params it was given.
dispatchPingByParams(method, params) ==
    IF method = UNDEF
    THEN Throw(<<"Cannot read properties of undefined (reading 'startsWith')">>)
    ELSE IF method[1] = pingName
         THEN Return(Some(IF params = UNDEF THEN "pong" ELSE "ping"))
    ELSE IF method[1] = executeName THEN execute(params)
    ELSE IF StartsWith(method[1], scenePrefix)
         THEN sceneDispatch(Slice(method[1], Len(scenePrefix)), params)
    ELSE IF StartsWith(method[1], assetsPrefix)
         THEN assetsDispatch(Slice(method[1], Len(assetsPrefix)), params)
    ELSE IF StartsWith(method[1], editorPrefix)
         THEN editorDispatch(Slice(method[1], Len(editorPrefix)), params)
    ELSE Throw(<<"Unknown method: ">> \o method[1])

dispatch(method, params) ==
    IF method = UNDEF
    THEN Throw(<<"Cannot read properties of undefined (reading 'startsWith')">>)
    ELSE IF method[1] = pingName THEN Return(Some("pong"))
    ELSE IF method[1] = executeName THEN execute(params)
    ELSE IF StartsWith(method[1], scenePrefix)
         THEN sceneDispatch(Slice(method[1], Len(scenePrefix)), params)
    ELSE IF StartsWith(method[1], assetsPrefix)
         THEN assetsDispatch(Slice(method[1], Len(assetsPrefix)), params)
    ELSE IF StartsWith(method[1], editorPrefix)
         THEN editorDispatch(Slice(method[1], Len(editorPrefix)), params)
    ELSE Throw(<<"Unknown method: ">> \o method[1])

--------------------------------------------------------------------------
(* The request/response cycle.                                             *)

ResponseIdMissing(req) == UNDEF

\* The id handleRequest copies into the response object.
ResponseId(req) == ReqField(req, "id")

OkResponse(req, value) == [id |-> ResponseId(req), result |-> value]
ErrResponse(req, message) ==
    [id |-> ResponseId(req), error |-> Some([message |-> ErrText(message)])]

\* handleRequest up to its first suspension.  Reading req.method of null
\* throws at the first log call, which is outside the try block: the promise
\* handleRequest returns is rejected ("escape").
handleRequest(req) ==
    IF req.type = "null" THEN [kind |-> "escape"]
    ELSE LET d == dispatch(ReqField(req, "method"), ReqField(req, "params"))
         IN  CASE d.kind = "return" ->
                    [kind |-> "respond", obj |-> OkResponse(req, d.value)]
               [] d.kind = "throw" ->
                    [kind |-> "respond", obj |-> ErrResponse(req, d.message)]
               [] d.kind = "host" ->
                    [kind |-> "await", call |-> d.call]

\* handleRequest resumed when the host call it awaits settles: with a
\* value, with an Error, or with a rejection value that has no message (a
\* string, null, undefined, a plain object), given by its String().
Resolved(value) == [kind |-> "resolve", value |-> value]
Rejected(message) == [kind |-> "reject", message |-> message]
RejectedWith(text) == [kind |-> "rejectValue", text |-> text]
\* handleRequestResume with an error path that leaves the id out.
handleRequestResumeErrorNoId(req, outcome) ==
    IF outcome.kind = "resolve"
    THEN OkResponse(req, outcome.value)
    ELSE IF outcome.kind = "reject"
    THEN [ErrResponse(req, outcome.message) EXCEPT !.id = UNDEF]
    ELSE [id |-> UNDEF, error |-> Some([message |-> outcome.text])]

handleRequestResume(req, outcome) ==
    IF outcome.kind = "resolve"
    THEN OkResponse(req, outcome.value)
    ELSE IF outcome.kind = "reject"
    THEN ErrResponse(req, outcome.message)
    ELSE [id |-> ResponseId(req), error |-> Some([message |-> outcome.text])]

\* JSON.stringify of a response object: a key whose value is undefined is
\* not emitted.
toLine(obj) ==
    [k \in {key \in DOMAIN obj : obj[key] # UNDEF} |-> obj[k][1]]

--------------------------------------------------------------------------
(* The bytes of a connection.                                              *)

NL == [t |-> "nl"]
SP == [t |-> "sp"]
JUNK == [t |-> "junk"]
Json(v) == [t |-> "json", v |-> v]

\* lastIndexOf in place of indexOf: the last newline at or after `from`.
\* The end of the buffer taken for a newline when the buffer holds none.
IndexOfNLOrEnd(buf, from) ==
    LET found == {i \in from..Len(buf) : buf[i] = NL} IN
    IF found # {} THEN CHOOSE i \in found : \A j \in found : i <= j
    ELSE IF from <= Len(buf) THEN Len(buf) + 1
    ELSE 0

RECURSIVE IndexOfNLLast(_, _)
IndexOfNLLast(buf, from) ==
    IF from > Len(buf) THEN 0
    ELSE LET later == IndexOfNLLast(buf, from + 1)
         IN  IF later # 0 THEN later
             ELSE IF buf[from] = NL THEN from ELSE 0

\* Array.prototype.indexOf on the buffer: the first newline, 0 when there is
\* none (the code's -1).
RECURSIVE IndexOfNL(_, _)
IndexOfNL(buf, from) ==
    IF from > Len(buf) THEN 0
    ELSE IF buf[from] = NL THEN from
    ELSE IndexOfNL(buf, from + 1)

\* String.prototype.trim
RECURSIVE TrimLeft(_)
TrimLeft(s) ==
    IF s # << >> /\ Head(s) = SP THEN TrimLeft(Tail(s)) ELSE s
RECURSIVE TrimRight(_)
TrimRight(s) ==
    IF s # << >> /\ s[Len(s)] = SP
    THEN TrimRight(SubSeq(s, 1, Len(s) - 1)) ELSE s
Trim(s) == TrimRight(TrimLeft(s))

\* JSON.parse of a trimmed line: a single complete JSON text parses to its
\* value; anything else (a fragment, two texts, a text with other text
\* around it) is a SyntaxError.
JSONParse(line) ==
    IF Len(line) = 1 /\ line[1].t = "json"
    THEN [ok |-> TRUE, value |-> line[1].v]
    ELSE [ok |-> FALSE]

InvalidJsonResponseIdZero ==
    [id |-> Some(0), error |-> Some([message |-> <<"Invalid JSON: SyntaxError">>])]

\* The response the handler writes when JSON.parse throws.
InvalidJsonResponse ==
    [id |-> Some(-1), error |-> Some([message |-> <<"Invalid JSON: SyntaxError">>])]

--------------------------------------------------------------------------
(* The port: getPort.                                                      *)
(* A JavaScript value is a record with a field t.  A number is an integer, *)
(* NaN or Infinity.  A string is a sequence of characters.                 *)

DEFAULT_PORT == 8787

JSUndefined == [t |-> "undefined"]
JSNull == [t |-> "null"]
JSBoolean(b) == [t |-> "boolean", b |-> b]
JSObject == [t |-> "object"]
JSString(s) == [t |-> "string", s |-> s]
JSNumber(n) == [t |-> "number", k |-> "int", n |-> n]
JSNaN == [t |-> "number", k |-> "nan", n |-> 0]
JSInfinity == [t |-> "number", k |-> "inf", n |-> 0]

IsDigit(ch) == ch \in {"0", "1", "2", "3", "4", "5", "6", "7", "8", "9"}
DigitValue(ch) ==
    CASE ch = "0" -> 0 [] ch = "1" -> 1 [] ch = "2" -> 2 [] ch = "3" -> 3
      [] ch = "4" -> 4 [] ch = "5" -> 5 [] ch = "6" -> 6 [] ch = "7" -> 7
      [] ch = "8" -> 8 [] ch = "9" -> 9

RECURSIVE DecimalValue(_)
DecimalValue(s) ==
    IF s = << >> THEN 0
    ELSE 10 * DecimalValue(SubSeq(s, 1, Len(s) - 1)) + DigitValue(s[Len(s)])

RECURSIVE StripLeft(_)
StripLeft(s) ==
    IF s # << >> /\ s[1] = " " THEN StripLeft(Tail(s)) ELSE s
RECURSIVE StripRight(_)
StripRight(s) ==
    IF s # << >> /\ s[Len(s)] = " "
    THEN StripRight(SubSeq(s, 1, Len(s) - 1)) ELSE s

\* Number(s) of a string of digits, blanks and letters: white space is
\* stripped, the empty string is 0, a decimal literal is its value and any
\* other text is NaN.
StringToNumber(s) ==
    LET t == StripRight(StripLeft(s)) IN
    IF t = << >> THEN JSNumber(0)
    ELSE IF \A i \in 1..Len(t) : IsDigit(t[i]) THEN JSNumber(DecimalValue(t))
    ELSE JSNaN

\* Number(v)
ToNumber(v) ==
    CASE v.t = "undefined" -> JSNaN
      [] v.t = "null" -> JSNumber(0)
      [] v.t = "boolean" -> JSNumber(IF v.b THEN 1 ELSE 0)
      [] v.t = "number" -> v
      [] v.t = "string" -> StringToNumber(v.s)
      [] v.t = "object" -> JSNaN

\* Number.isFinite
IsFinite(n) == n.t = "number" /\ n.k = "int"

\* What getPort reads: process.env.COCOS_MCP_PORT (undefined or a string)
\* and Editor.Profile.getProject, which is missing, throws, or returns a
\* value.
ProfileUnavailable == [kind |-> "unavailable"]
ProfileThrows == [kind |-> "throws"]
ProfileValue(v) == [kind |-> "value", v |-> v]
Env(envPort, profile) == [envPort |-> envPort, profile |-> profile]

getPort(e) ==
    IF e.envPort # UNDEF /\ e.envPort[1] # << >>
       /\ IsFinite(StringToNumber(e.envPort[1]))
    THEN StringToNumber(e.envPort[1])
    ELSE IF e.profile.kind = "value" /\ IsFinite(ToNumber(e.profile.v))
    THEN ToNumber(e.profile.v)
    ELSE JSNumber(DEFAULT_PORT)

\* server.listen(port, ...) throws ERR_SOCKET_BAD_PORT for a port that is
\* not an integer in 0..65535.
ValidPort(p) == IsFinite(p) /\ p.n >= 0 /\ p.n <= 65535

--------------------------------------------------------------------------
(* The scene script (src/scene.ts).                                        *)
(* director.getScene() is undefined (no scene is open) or the scene: its   *)
(* nodes by uuid, the scene itself being node Root, and the number `next`  *)
(* of uuids given out.  A node has a parent, the classes of its components *)
(* in the order they were added, and the set of the properties that were   *)
(* written (<<"node", key>> for its own, <<class, key>> for a component's).*)
(* The order of the children of a node and the values of the properties    *)
(* are left out.                                                           *)
(* The params of a call are undefined or a record of the fields the        *)
(* methods read, each undefined or a value.                                *)

Root == 0
NoParent == -1
NewNode(parent) == [parent |-> parent, comps |-> << >>, written |-> {}]
EmptyScene == [nodes |-> [n \in {Root} |-> NewNode(NoParent)], next |-> 0]

\* The parameters of a call. The field uuid also carries listNodes'
\* rootUuid, parentUuid carries moveNode's newParentUuid, type carries the
\* component class, the UI type or the collider type, and props carries
\* every other parameter (each missing when the caller leaves it out).
Params(uuid, parentUuid, type, props) ==
    [uuid |-> uuid, parentUuid |-> parentUuid, type |-> type, props |-> props]

\* What a method does: how the call ends, and the scene it leaves.
Done(sc, value) == [out |-> Return(value), scene |-> sc]
Fail(sc, message) == [out |-> Throw(message), scene |-> sc]

NoActiveSceneOther == <<"Node not found: ">>

NoActiveScene == <<"No active scene">>
\* Reading a field of params when params is undefined.
NoParams == <<"Cannot read properties of undefined">>

\* n is root or below it: the walk up from n comes to Root.
RECURSIVE Below(_, _, _, _)
Below(g, n, top, fuel) ==
    \/ n = top
    \/ /\ fuel > 0
       /\ n \in DOMAIN g.nodes
       /\ g.nodes[n].parent \in DOMAIN g.nodes
       /\ Below(g, g.nodes[n].parent, top, fuel - 1)

\* findNodeByUuid(root, uuid): the node, if the search down from the scene
\* finds it (undefined is no node's uuid).
findNodeByUuid(g, uuid) ==
    IF uuid # UNDEF /\ uuid[1] \in DOMAIN g.nodes
       /\ Below(g, uuid[1], Root, Cardinality(DOMAIN g.nodes))
    THEN uuid ELSE UNDEF

\* The node n and everything below it.
Subtree(g, n) ==
    {m \in DOMAIN g.nodes : Below(g, m, n, Cardinality(DOMAIN g.nodes))}

\* parent.addChild(new Node(...)): the scene with a new node, and its uuid.
AddChild(g, parent) ==
    [nodes |-> [n \in DOMAIN g.nodes \cup {g.next + 1} |->
                   IF n = g.next + 1 THEN NewNode(parent) ELSE g.nodes[n]],
     next |-> g.next + 1]

\* The classes node.addComponent knows; any other name makes it throw.
Classes ==
    {"cc.UITransform", "cc.Label", "cc.Sprite", "cc.Button", "cc.Layout",
     "cc.ScrollView", "cc.EditBox", "cc.Toggle", "cc.Slider",
     "cc.ProgressBar", "cc.RichText", "cc.Widget", "cc.Animation",
     "cc.MeshRenderer", "cc.RigidBody", "cc.BoxCollider",
     "cc.SphereCollider", "cc.CapsuleCollider", "cc.CylinderCollider",
     "cc.MeshCollider", "cc.ParticleSystem"}

\* node.addComponent(class), for a class the engine knows.
AddComponent(g, n, class) ==
    [g EXCEPT !.nodes[n].comps = Append(@, class)]

RECURSIVE AddComponents(_, _, _)
AddComponents(g, n, classes) ==
    IF classes = << >> THEN g
    ELSE AddComponents(AddComponent(g, n, Head(classes)), n, Tail(classes))

\* node.getComponent(class): whether the node has one.
HasComponent(g, n, class) ==
    \E i \in 1..Len(g.nodes[n].comps) : g.nodes[n].comps[i] = class

\* The node has the component: it is added when it is missing.
Ensure(g, n, class) ==
    IF HasComponent(g, n, class) THEN g ELSE AddComponent(g, n, class)

\* Properties are written: the node's own, a component's.
Write(g, n, keys) == [g EXCEPT !.nodes[n].written = @ \cup keys]
WriteOwn(g, n, keys) == Write(g, n, {<<"node", k>> : k \in keys})
WriteOn(g, n, class, keys) == Write(g, n, {<<class, k>> : k \in keys})

\* getSceneRoot(): whether director.getScene() gives a scene.
getSceneRoot(sc) == sc # UNDEF

getActive(sc, params) ==
    IF ~getSceneRoot(sc) THEN Fail(sc, NoActiveScene)
    ELSE Done(sc, Some(<<"scene", Root>>))

listNodes(sc, params) ==
    IF ~getSceneRoot(sc) THEN Fail(sc, NoActiveScene)
    ELSE LET g == sc[1]
             target == IF params # UNDEF /\ params[1].uuid # UNDEF
                       THEN findNodeByUuid(g, params[1].uuid) ELSE Some(Root)
         IN IF target = UNDEF THEN Fail(sc, <<"Node not found: ">>)
            ELSE Done(sc, Some(<<"nodes", Subtree(g, target[1])>>))

createNode(sc, params) ==
    IF ~getSceneRoot(sc) THEN Fail(sc, NoActiveScene)
    ELSE IF params = UNDEF THEN Fail(sc, NoParams)
    ELSE LET g == sc[1]
             parent == IF params[1].parentUuid # UNDEF
                       THEN findNodeByUuid(g, params[1].parentUuid)
                       ELSE Some(Root)
         IN IF parent = UNDEF THEN Fail(sc, <<"Parent not found: ">>)
            ELSE Done(Some(AddChild(g, parent[1])), Some(<<"node", g.next + 1>>))

\* node.destroy(): the node and everything below it leave the scene; the
\* scene itself stays, without its nodes.
Destroy(g, n) ==
    LET gone == Subtree(g, n) \ {Root} IN
    [g EXCEPT !.nodes = [m \in DOMAIN g.nodes \ gone |-> g.nodes[m]]]

deleteNode(sc, params) ==
    IF ~getSceneRoot(sc) THEN Fail(sc, NoActiveScene)
    ELSE IF params = UNDEF THEN Fail(sc, NoParams)
    ELSE LET g == sc[1]
             node == findNodeByUuid(g, params[1].uuid)
         IN IF node = UNDEF THEN Fail(sc, <<"Node not found: ">>)
            ELSE Done(Some(Destroy(g, node[1])), Some(<<"ok">>))

\* instantiate(node) added to parent: every node of the subtree of n gets a
\* copy with a new uuid, the copy of n below `parent`.
Instantiate(g, n, parent) ==
    LET old == Subtree(g, n)
        CopyOf(m) == g.next + 1 + Cardinality({k \in old : k < m})
        copies == {CopyOf(m) : m \in old}
        Original(c) == CHOOSE m \in old : CopyOf(m) = c
    IN [nodes |-> [c \in DOMAIN g.nodes \cup copies |->
                      IF c \in DOMAIN g.nodes THEN g.nodes[c]
                      ELSE [g.nodes[Original(c)] EXCEPT
                               !.parent = IF Original(c) = n THEN parent
                                          ELSE CopyOf(g.nodes[Original(c)].parent)]],
        next |-> g.next + Cardinality(old)]

duplicateNode(sc, params) ==
    IF ~getSceneRoot(sc) THEN Fail(sc, NoActiveScene)
    ELSE IF params = UNDEF THEN Fail(sc, NoParams)
    ELSE LET g == sc[1]
             node == findNodeByUuid(g, params[1].uuid)
         IN IF node = UNDEF THEN Fail(sc, <<"Node not found: ">>)
            ELSE LET parent ==
                        IF params[1].parentUuid # UNDEF
                        THEN findNodeByUuid(g, params[1].parentUuid)
                        ELSE IF g.nodes[node[1]].parent = NoParent THEN UNDEF
                        ELSE Some(g.nodes[node[1]].parent)
                 IN IF parent = UNDEF THEN Fail(sc, <<"Parent not found">>)
                    ELSE Done(Some(Instantiate(g, node[1], parent[1])),
                              Some(<<"node", g.next + 1>>))

\* node.parent = parent: the engine sets the parent it is given.
moveNode(sc, params) ==
    IF ~getSceneRoot(sc) THEN Fail(sc, NoActiveScene)
    ELSE IF params = UNDEF THEN Fail(sc, NoParams)
    ELSE LET g == sc[1]
             node == findNodeByUuid(g, params[1].uuid)
             parent == findNodeByUuid(g, params[1].parentUuid)
         IN IF node = UNDEF \/ parent = UNDEF
            THEN Fail(sc, <<"Node or parent not found">>)
            ELSE Done(Some([g EXCEPT !.nodes[node[1]].parent = parent[1]]),
                      Some(<<"ok">>))

\* The keys of params.props a method writes, in the order it tests them; a
\* key's value is "ok" or "bad" (of a type the method does not expect).
PropsOf(params) == IF params[1].props = UNDEF THEN << >> ELSE params[1].props[1]
GoodKeys(props) == {k \in DOMAIN props : props[k] = "ok"}

getNodeProps(sc, params) ==
    IF ~getSceneRoot(sc) THEN Fail(sc, NoActiveScene)
    ELSE IF params = UNDEF THEN Fail(sc, NoParams)
    ELSE LET node == findNodeByUuid(sc[1], params[1].uuid)
         IN IF node = UNDEF THEN Fail(sc, <<"Node not found: ">>)
            ELSE Done(sc, Some(<<"props", DOMAIN PropsOf(params)>>))

\* position, rotation and scale are destructured when they are truthy: a
\* value that is not iterable throws, after the writes made before it.
\* active, name and layer are written when they have the expected type.
Destructured == <<"position", "rotation", "scale">>
Typed == {"active", "name", "layer"}
RECURSIVE SetDestructured(_, _, _, _)
SetDestructured(g, n, props, keys) ==
    IF keys = << >>
    THEN Done(Some(WriteOwn(g, n, GoodKeys(props) \cap Typed)), Some(<<"ok">>))
    ELSE IF Head(keys) \notin DOMAIN props
         THEN SetDestructured(g, n, props, Tail(keys))
    ELSE IF props[Head(keys)] = "bad"
         THEN Fail(Some(g), <<"undefined is not iterable">>)
    ELSE SetDestructured(WriteOwn(g, n, {Head(keys)}), n, props, Tail(keys))

setNodeProps(sc, params) ==
    IF ~getSceneRoot(sc) THEN Fail(sc, NoActiveScene)
    ELSE IF params = UNDEF THEN Fail(sc, NoParams)
    ELSE LET node == findNodeByUuid(sc[1], params[1].uuid)
         IN IF node = UNDEF THEN Fail(sc, <<"Node not found: ">>)
            ELSE SetDestructured(sc[1], node[1], PropsOf(params), Destructured)

\* The class params.type names, if the engine knows it.
ClassOf(params) ==
    IF params[1].type # UNDEF /\ params[1].type[1] \in Classes
    THEN params[1].type ELSE UNDEF

addComponent(sc, params) ==
    IF ~getSceneRoot(sc) THEN Fail(sc, NoActiveScene)
    ELSE IF params = UNDEF THEN Fail(sc, NoParams)
    ELSE LET node == findNodeByUuid(sc[1], params[1].uuid)
         IN IF node = UNDEF THEN Fail(sc, <<"Node not found: ">>)
            ELSE IF ClassOf(params) = UNDEF
                 THEN Fail(sc, <<"addComponent: class not found">>)
            ELSE Done(Some(AddComponent(sc[1], node[1], ClassOf(params)[1])),
                      Some(<<"component", ClassOf(params)[1]>>))

\* node.removeComponent(comp): the first component of the class leaves.
RemoveComponent(g, n, class) ==
    LET cs == g.nodes[n].comps
        i == CHOOSE j \in 1..Len(cs) :
                cs[j] = class /\ \A k \in 1..(j - 1) : cs[k] # class
    IN [g EXCEPT !.nodes[n].comps = SubSeq(cs, 1, i - 1) \o SubSeq(cs, i + 1, Len(cs)),
                 !.nodes[n].written =
                     IF \E j \in 1..Len(cs) : j # i /\ cs[j] = class THEN @
                     ELSE {w \in @ : w[1] # class}]

removeComponent(sc, params) ==
    IF ~getSceneRoot(sc) THEN Fail(sc, NoActiveScene)
    ELSE IF params = UNDEF THEN Fail(sc, NoParams)
    ELSE LET node == findNodeByUuid(sc[1], params[1].uuid)
         IN IF node = UNDEF THEN Fail(sc, <<"Node not found: ">>)
            ELSE IF ClassOf(params) # UNDEF
                    /\ HasComponent(sc[1], node[1], ClassOf(params)[1])
                 THEN Done(Some(RemoveComponent(sc[1], node[1], ClassOf(params)[1])),
                           Some(<<"ok">>))
            ELSE Done(sc, Some(<<"ok">>))

getComponentProps(sc, params) ==
    IF ~getSceneRoot(sc) THEN Fail(sc, NoActiveScene)
    ELSE IF params = UNDEF THEN Fail(sc, NoParams)
    ELSE LET node == findNodeByUuid(sc[1], params[1].uuid)
         IN IF node = UNDEF THEN Fail(sc, <<"Node not found: ">>)
            ELSE IF ClassOf(params) = UNDEF
                    \/ ~HasComponent(sc[1], node[1], ClassOf(params)[1])
                 THEN Fail(sc, <<"Component not found: ">>)
            ELSE Done(sc, Some(<<"props", DOMAIN PropsOf(params)>>))

setComponentProps(sc, params) ==
    IF ~getSceneRoot(sc) THEN Fail(sc, NoActiveScene)
    ELSE IF params = UNDEF THEN Fail(sc, NoParams)
    ELSE LET node == findNodeByUuid(sc[1], params[1].uuid)
         IN IF node = UNDEF THEN Fail(sc, <<"Node not found: ">>)
            ELSE IF ClassOf(params) = UNDEF
                    \/ ~HasComponent(sc[1], node[1], ClassOf(params)[1])
                 THEN Fail(sc, <<"Component not found: ">>)
            ELSE Done(Some(WriteOn(sc[1], node[1], ClassOf(params)[1],
                                   DOMAIN PropsOf(params))),
                      Some(<<"ok">>))

\* The scene script's execute: the code runs with (cc, args).
scriptExecute(sc, params) ==
    IF params = UNDEF \/ params[1].code = UNDEF
    THEN Fail(sc, <<"execute requires { code, args? }">>)
    ELSE [out |-> RunMainCode(params[1].code[1]), scene |-> sc]

\* createUINode: the components of each supported type, and the child that
\* a Button and a ScrollView get.
UITypes ==
    {"Label", "Sprite", "Button", "Layout", "ScrollView", "EditBox", "Toggle",
     "Slider", "ProgressBar", "RichText"}
UIComponents(type) ==
    CASE type = "Label" -> <<"cc.Label">>
      [] type = "Sprite" -> <<"cc.Sprite">>
      [] type = "Button" -> <<"cc.Sprite", "cc.Button">>
      [] type = "Layout" -> <<"cc.Layout">>
      [] type = "ScrollView" -> <<"cc.ScrollView">>
      [] type = "EditBox" -> <<"cc.EditBox">>
      [] type = "Toggle" -> <<"cc.Sprite", "cc.Toggle">>
      [] type = "Slider" -> <<"cc.Slider">>
      [] type = "ProgressBar" -> <<"cc.ProgressBar">>
      [] type = "RichText" -> <<"cc.RichText">>
UIChild(type) ==
    CASE type = "Button" -> <<"cc.UITransform", "cc.Label">>
      [] type = "ScrollView" -> <<"cc.UITransform">>
      [] OTHER -> << >>

createUINode(sc, params) ==
    IF ~getSceneRoot(sc) THEN Fail(sc, NoActiveScene)
    ELSE IF params = UNDEF THEN Fail(sc, NoParams)
    ELSE LET g == sc[1]
             parent == IF params[1].parentUuid # UNDEF
                       THEN findNodeByUuid(g, params[1].parentUuid)
                       ELSE Some(Root)
         IN IF parent = UNDEF THEN Fail(sc, <<"Parent not found: ">>)
            ELSE LET node == g.next + 1
                     g1 == AddComponent(AddChild(g, parent[1]), node,
                                        "cc.UITransform")
                 IN IF params[1].type = UNDEF \/ params[1].type[1] \notin UITypes
                    THEN Fail(Some(g1), <<"Unknown UI type: ">>)
                    ELSE LET type == params[1].type[1]
                             g2 == AddComponents(g1, node, UIComponents(type))
                             g3 == IF UIChild(type) = << >> THEN g2
                                   ELSE AddComponents(AddChild(g2, node),
                                                      g2.next + 1, UIChild(type))
                         IN Done(Some(g3), Some(<<"node", node>>))

\* configureWidget, configureLayout, configureParticleSystem: the component
\* is added when the node has none, and the well-typed props are written.
Configure(sc, params, class) ==
    IF ~getSceneRoot(sc) THEN Fail(sc, NoActiveScene)
    ELSE IF params = UNDEF THEN Fail(sc, NoParams)
    ELSE LET node == findNodeByUuid(sc[1], params[1].uuid)
         IN IF node = UNDEF THEN Fail(sc, <<"Node not found: ">>)
            ELSE Done(Some(WriteOn(Ensure(sc[1], node[1], class), node[1], class,
                                   GoodKeys(PropsOf(params)))),
                      Some(<<"ok">>))

configureWidget(sc, params) == Configure(sc, params, "cc.Widget")

configureLayout(sc, params) == Configure(sc, params, "cc.Layout")

configureParticleSystem(sc, params) == Configure(sc, params, "cc.ParticleSystem")

addAnimation(sc, params) ==
    IF ~getSceneRoot(sc) THEN Fail(sc, NoActiveScene)
    ELSE IF params = UNDEF THEN Fail(sc, NoParams)
    ELSE LET node == findNodeByUuid(sc[1], params[1].uuid)
         IN IF node = UNDEF THEN Fail(sc, <<"Node not found: ">>)
            ELSE Done(Some(Ensure(sc[1], node[1], "cc.Animation")),
                      Some(<<"component", "Animation">>))

\* playAnimation, stopAnimation, setMaterialProperty, getMaterialProperty:
\* the node must have the component; `keys` are what the call writes on it.
\* (A mesh renderer is taken to have the material that is asked for.)
OnComponent(sc, params, class, missing, keys) ==
    IF ~getSceneRoot(sc) THEN Fail(sc, NoActiveScene)
    ELSE IF params = UNDEF THEN Fail(sc, NoParams)
    ELSE LET node == findNodeByUuid(sc[1], params[1].uuid)
         IN IF node = UNDEF THEN Fail(sc, <<"Node not found: ">>)
            ELSE IF ~HasComponent(sc[1], node[1], class) THEN Fail(sc, missing)
            ELSE Done(Some(WriteOn(sc[1], node[1], class, keys)), Some(<<"ok">>))

playAnimation(sc, params) ==
    OnComponent(sc, params, "cc.Animation",
                <<"Node has no Animation component">>, {"playing"})

stopAnimation(sc, params) ==
    OnComponent(sc, params, "cc.Animation",
                <<"Node has no Animation component">>, {"playing"})

setMaterialProperty(sc, params) ==
    OnComponent(sc, params, "cc.MeshRenderer",
                <<"Node has no MeshRenderer component">>, {"material"})

getMaterialProperty(sc, params) ==
    OnComponent(sc, params, "cc.MeshRenderer",
                <<"Node has no MeshRenderer component">>, {})

\* addPhysicsBody: params.type is the collider type.  The rigid body is
\* added and its type written before the collider type is looked up.
ColliderTypes == {"box", "sphere", "capsule", "cylinder", "mesh"}
ColliderClass(type) ==
    CASE type = "box" -> "cc.BoxCollider"
      [] type = "sphere" -> "cc.SphereCollider"
      [] type = "capsule" -> "cc.CapsuleCollider"
      [] type = "cylinder" -> "cc.CylinderCollider"
      [] type = "mesh" -> "cc.MeshCollider"

addPhysicsBody(sc, params) ==
    IF ~getSceneRoot(sc) THEN Fail(sc, NoActiveScene)
    ELSE IF params = UNDEF THEN Fail(sc, NoParams)
    ELSE LET node == findNodeByUuid(sc[1], params[1].uuid)
         IN IF node = UNDEF THEN Fail(sc, <<"Node not found: ">>)
            ELSE LET g1 == WriteOn(Ensure(sc[1], node[1], "cc.RigidBody"),
                                   node[1], "cc.RigidBody", {"type"})
                 IN IF params[1].type = UNDEF
                       \/ params[1].type[1] \notin ColliderTypes
                    THEN Fail(Some(g1), <<"Unknown collider type: ">>)
                    ELSE LET class == ColliderClass(params[1].type[1])
                         IN Done(Some(WriteOn(AddComponent(g1, node[1], class),
                                              node[1], class,
                                              GoodKeys(PropsOf(params)))),
                                 Some(<<"body", node[1]>>))

\* The methods of the scene script that work on the scene's nodes and
\* components (all of module.exports.methods but execute).
SceneMethods ==
    {"getActive", "listNodes", "createNode", "deleteNode", "duplicateNode",
     "moveNode", "getNodeProps", "setNodeProps", "addComponent",
     "removeComponent", "getComponentProps", "setComponentProps",
     "createUINode", "configureWidget", "configureLayout", "addAnimation",
     "playAnimation", "stopAnimation", "setMaterialProperty",
     "getMaterialProperty", "addPhysicsBody", "configureParticleSystem"}

\* module.exports.methods[method](params)
SceneScript(method, sc, params) ==
    CASE method = "getActive" -> getActive(sc, params)
      [] method = "listNodes" -> listNodes(sc, params)
      [] method = "createNode" -> createNode(sc, params)
      [] method = "deleteNode" -> deleteNode(sc, params)
      [] method = "duplicateNode" -> duplicateNode(sc, params)
      [] method = "moveNode" -> moveNode(sc, params)
      [] method = "getNodeProps" -> getNodeProps(sc, params)
      [] method = "setNodeProps" -> setNodeProps(sc, params)
      [] method = "addComponent" -> addComponent(sc, params)
      [] method = "removeComponent" -> removeComponent(sc, params)
      [] method = "getComponentProps" -> getComponentProps(sc, params)
      [] method = "setComponentProps" -> setComponentProps(sc, params)
      [] method = "execute" -> scriptExecute(sc, params)
      [] method = "createUINode" -> createUINode(sc, params)
      [] method = "configureWidget" -> configureWidget(sc, params)
      [] method = "configureLayout" -> configureLayout(sc, params)
      [] method = "addAnimation" -> addAnimation(sc, params)
      [] method = "playAnimation" -> playAnimation(sc, params)
      [] method = "stopAnimation" -> stopAnimation(sc, params)
      [] method = "setMaterialProperty" -> setMaterialProperty(sc, params)
      [] method = "getMaterialProperty" -> getMaterialProperty(sc, params)
      [] method = "addPhysicsBody" -> addPhysicsBody(sc, params)
      [] method = "configureParticleSystem" -> configureParticleSystem(sc, params)

--------------------------------------------------------------------------
(* The state.                                                              *)

Sockets == {"A", "B"}

VARIABLES
    server,         \* 0 (null) or the number of the listener startServer made
    started,        \* listeners made so far
    activeSockets,  \* the Set of main.js
    sock,           \* each socket: "none", "open", "errored", "destroyed", "closed"
    buffer,         \* each connection's buffer (a variable of its closure)
    pending,        \* each connection's suspended executions of the data handler
    wire,           \* bytes a client sent that no data event delivered yet
    sent,           \* how many times the clients sent
    received,       \* history: every byte the data events delivered
    decoded,        \* history: the lines given to JSON.parse, in order
    written,        \* history: the response lines given to socket.write
    hostCalls,      \* history: the calls made to the host editor
    escaped,        \* history: the lines whose handling rejected the handler's promise
    env,            \* what getPort reads: the override and the profile
    port,           \* the port startServer resolved for the last listener it made
    listening,      \* the listener `server` is bound and accepts connections
    live,           \* the listeners made and not closed
    log,            \* history: the log lines of startServer and stopServer
    acceptedBy,     \* each socket: the listener that accepted it (0: none)
    returned,       \* how the last call of start(), stop() or status() ended
    scene,          \* director.getScene(): undefined, or the open scene
    sceneResult,    \* how the last call of a scene script method ended
    sceneCalls      \* how many calls of scene script methods were made

\* The scene script's side.
sceneVars == <<scene, sceneResult, sceneCalls>>

\* What the data handlers and the clients leave alone.
lifeVars == <<env, port, listening, live, log, acceptedBy, returned, sceneVars>>

vars == <<server, started, activeSockets, sock, buffer, pending, wire, sent,
          received, decoded, written, hostCalls, escaped, lifeVars>>

\* No override and no profile: getPort gives the default port.
DefaultEnv == Env(UNDEF, ProfileUnavailable)

\* How a call of an exported method ended: with a value (undefined for
\* start and stop) or with an exception.
NoCall == [op |-> "none", threw |-> FALSE, value |-> UNDEF]
Returned(op, value) == [op |-> op, threw |-> FALSE, value |-> value]
Threw(op) == [op |-> op, threw |-> TRUE, value |-> UNDEF]

InitEnv(e) ==
    /\ server = 0
    /\ started = 0
    /\ activeSockets = {}
    /\ sock = [c \in Sockets |-> "none"]
    /\ buffer = [c \in Sockets |-> << >>]
    /\ pending = [c \in Sockets |-> {}]
    /\ wire = [c \in Sockets |-> << >>]
    /\ sent = 0
    /\ received = [c \in Sockets |-> << >>]
    /\ decoded = [c \in Sockets |-> << >>]
    /\ written = [c \in Sockets |-> << >>]
    /\ hostCalls = << >>
    /\ escaped = {}
    /\ env = e
    /\ port = JSNumber(DEFAULT_PORT)
    /\ listening = FALSE
    /\ live = {}
    /\ log = << >>
    /\ acceptedBy = [c \in Sockets |-> 0]
    /\ returned = NoCall
    /\ scene = UNDEF
    /\ sceneResult = Return(UNDEF)
    /\ sceneCalls = 0

Init == InitEnv(DefaultEnv)

--------------------------------------------------------------------------
(* The 'data' handler of one connection.                                   *)

WriteTargetsAll(c) == activeSockets \cup {c}

\* The sockets socket.write is called on for a response produced by the
\* handler of connection c: the socket of the handler's own closure.
WriteTargets(c) == {c}

IsEmptyLineNever(line) == FALSE

\* line.length === 0: the line is skipped.
IsEmptyLine(line) == Len(line) = 0

\* The while loop of the handler, run on buffer `buf` until the buffer holds
\* no newline, or handleRequest has to wait for the host (the execution is
\* suspended), or the awaited promise is rejected (the execution ends with
\* that rejection).  acc collects what the run did:
\*   buffer  the buffer it leaves
\*   n       lines given to JSON.parse so far on this connection
\*   lines   the lines it gave to JSON.parse
\*   out     the responses it wrote, each with the number of its line
\*   calls   the host calls it made
\*   susp    the suspended execution, if it ended suspended
\*   esc     the line whose rejection ended it, if it ended so
RECURSIVE Loop(_, _)
Loop(buf, acc) ==
    LET idx == IndexOfNL(buf, 1) IN
    IF idx = 0 THEN [acc EXCEPT !.buffer = buf]
    ELSE
      LET line == Trim(SubSeq(buf, 1, idx - 1))
          rest == SubSeq(buf, idx + 1, Len(buf))
      IN
      IF IsEmptyLine(line) THEN Loop(rest, acc)
      ELSE
        LET n == acc.n + 1
            parsed == JSONParse(line)
            acc1 == [acc EXCEPT !.n = n, !.lines = Append(@, line)]
        IN
        IF ~parsed.ok
        THEN LET acc2 == [acc1 EXCEPT !.out = Append(@,
                              [line |-> n, resp |-> toLine(InvalidJsonResponse)])]
             IN  Loop(rest, acc2)
        ELSE
          LET h == handleRequest(parsed.value) IN
          CASE h.kind = "respond" ->
                 Loop(rest, [acc1 EXCEPT !.out = Append(@,
                                [line |-> n, resp |-> toLine(h.obj)])])
            [] h.kind = "await" ->
                 [acc1 EXCEPT !.buffer = rest,
                              !.calls = Append(@, [line |-> n, call |-> h.call]),
                              !.susp = {[line |-> n, req |-> parsed.value]}]
            [] h.kind = "escape" ->
                 [acc1 EXCEPT !.buffer = rest, !.esc = {n}]

StartAcc(c) ==
    [buffer |-> << >>, n |-> Len(decoded[c]), lines |-> << >>, out |-> << >>,
     calls |-> << >>, susp |-> {}, esc |-> {}]

\* The responses of a run as socket.write records them on socket d: the
\* line, the connection the line arrived on, and whether d was still open.
Writes(c, d, out) ==
    [i \in 1..Len(out) |->
        [from |-> c, line |-> out[i].line, resp |-> out[i].resp,
         live |-> sock[d] = "open"]]

\* The state after a run of the loop of connection c that ended as r, with
\* `first` written before the run's own responses.
Ran(c, r, first) ==
    /\ buffer' = [buffer EXCEPT ![c] = r.buffer]
    /\ decoded' = [decoded EXCEPT ![c] = @ \o r.lines]
    /\ written' = [d \in Sockets |->
                     IF d \in WriteTargets(c)
                     THEN written[d] \o Writes(c, d, first \o r.out)
                     ELSE written[d]]
    /\ hostCalls' = hostCalls \o
                      [i \in 1..Len(r.calls) |->
                          [sock |-> c, line |-> r.calls[i].line,
                           call |-> r.calls[i].call]]
    /\ escaped' = escaped \cup {<<c, n>> : n \in r.esc}

\* socket.on("data", async (data) => { ... }): the chunk is every byte that
\* waits on the connection.
Data(c) ==
    /\ sock[c] = "open"
    /\ wire[c] # << >>
    /\ LET r == Loop(buffer[c] \o wire[c], StartAcc(c)) IN
       /\ Ran(c, r, << >>)
       /\ pending' = [pending EXCEPT ![c] = @ \cup r.susp]
    /\ received' = [received EXCEPT ![c] = @ \o wire[c]]
    /\ wire' = [wire EXCEPT ![c] = << >>]
    /\ UNCHANGED <<server, started, activeSockets, sock, sent, lifeVars>>

\* The ways a call to the host editor settles: with a value, with no value,
\* with an error.
ValueOutcomes == {Resolved(Some("ok")), Rejected(<<"host error">>)}
HostOutcomes == ValueOutcomes \cup {Resolved(UNDEF)}

ResumeBufferLost(c) == << >>

\* The buffer an execution finds when it goes on after its await: the
\* variable of the closure as it is then, with whatever other executions
\* of the handler appended to it or took from it in the meantime.
ResumeBuffer(c) == buffer[c]

\* The host call of a suspended execution settles: handleRequest returns
\* the response, the handler writes it and goes on with the loop.
Settle(c, p, outcome) ==
    /\ p \in pending[c]
    /\ LET resp == toLine(handleRequestResume(p.req, outcome))
           r == Loop(ResumeBuffer(c), StartAcc(c))
       IN
       /\ Ran(c, r, <<[line |-> p.line, resp |-> resp]>>)
       /\ pending' = [pending EXCEPT ![c] = (@ \ {p}) \cup r.susp]
    /\ UNCHANGED <<server, started, activeSockets, sock, wire, sent, received,
                   lifeVars>>

--------------------------------------------------------------------------
(* The server and its connections.                                         *)

\* The ways the bind of server.listen ends.
BindOutcomes == {"ok", "EADDRINUSE", "EACCES"}

\* The log lines of the listen callback and of the server's error handler.
ListenLogsNoHint(p, bind) ==
    IF bind = "ok"
    THEN <<[level |-> "info", msg |-> <<"TCP server listening on 127.0.0.1:">>,
            port |-> p]>>
    ELSE <<[level |-> "error", msg |-> <<"TCP server error: ", bind>>,
            port |-> p]>>

ListenLogs(p, bind) ==
    IF bind = "ok"
    THEN <<[level |-> "info", msg |-> <<"TCP server listening on 127.0.0.1:">>,
            port |-> p]>>
    ELSE <<[level |-> "error", msg |-> <<"TCP server error: ", bind>>,
            port |-> p]>>
         \o (IF bind = "EADDRINUSE"
             THEN <<[level |-> "error",
                     msg |-> <<"Port is already in use. ",
                               "Set COCOS_MCP_PORT to a different port.">>,
                     port |-> p]>>
             ELSE << >>)

HasServerNever == FALSE

HasServerAlways == TRUE

\* if (server): a listener exists.
HasServer == server # 0

\* startServer(), with the callback or the error handler that server.listen
\* runs before any other event (the address is a literal, so the bind is
\* made and its outcome emitted on the next ticks).  Nothing when a
\* listener exists.  A port that listen refuses makes listen throw after
\* the listener was made.
StartServer(bind) ==
    /\ server # 0 \/ started < MaxStarts
    /\ IF HasServer
       THEN /\ returned' = Returned("start", UNDEF)
            /\ UNCHANGED <<server, started, port, listening, live, log>>
       ELSE LET p == getPort(env) IN
            /\ started' = started + 1
            /\ server' = started + 1
            /\ live' = live \cup {started + 1}
            /\ port' = p
            /\ IF ~ValidPort(p)
               THEN /\ listening' = FALSE
                    /\ log' = log
                    /\ returned' = Threw("start")
               ELSE /\ listening' = (bind = "ok")
                    /\ log' = log \o ListenLogs(p, bind)
                    /\ returned' = Returned("start", UNDEF)
    /\ UNCHANGED <<activeSockets, sock, buffer, pending, wire, sent,
                   received, decoded, written, hostCalls, escaped, env,
                   acceptedBy, sceneVars>>

\* A connection callback that also runs when no listener is bound.
AcceptWithoutListener(c) ==
    /\ sock[c] = "none"
    /\ c = "B" => sock["A"] # "none"
    /\ activeSockets' = activeSockets \cup {c}
    /\ sock' = [sock EXCEPT ![c] = "open"]
    /\ acceptedBy' = [acceptedBy EXCEPT ![c] = server]
    /\ UNCHANGED <<server, started, buffer, pending, wire, sent, received,
                   decoded, written, hostCalls, escaped, env, port,
                   listening, live, log, returned, sceneVars>>

\* The connection callback of net.createServer: it runs for a connection
\* made to the bound listener.  The sockets are fresh objects: the first
\* one accepted is called "A".
Accept(c) ==
    /\ server # 0
    /\ listening
    /\ sock[c] = "none"
    /\ c = "B" => sock["A"] # "none"
    /\ activeSockets' = activeSockets \cup {c}
    /\ sock' = [sock EXCEPT ![c] = "open"]
    /\ acceptedBy' = [acceptedBy EXCEPT ![c] = server]
    /\ UNCHANGED <<server, started, buffer, pending, wire, sent, received,
                   decoded, written, hostCalls, escaped, env, port,
                   listening, live, log, returned, sceneVars>>

DeleteNothing(set, c) == set

\* activeSockets.clear() in place of delete.
DeleteAll(set, c) == {}

\* activeSockets.delete(socket)
Delete(set, c) == set \ {c}

\* socket.on("close"): the peer ended the connection, or the socket was
\* destroyed (by stopServer, or after an error).  Bytes not yet delivered
\* are lost.
Close(c) ==
    /\ sock[c] \in {"open", "errored", "destroyed"}
    /\ activeSockets' = Delete(activeSockets, c)
    /\ sock' = [sock EXCEPT ![c] = "closed"]
    /\ wire' = [wire EXCEPT ![c] = << >>]
    /\ UNCHANGED <<server, started, buffer, pending, sent, received, decoded,
                   written, hostCalls, escaped, lifeVars>>

\* socket.on("error")
SocketError(c) ==
    /\ sock[c] = "open"
    /\ activeSockets' = Delete(activeSockets, c)
    /\ sock' = [sock EXCEPT ![c] = "errored"]
    /\ wire' = [wire EXCEPT ![c] = << >>]
    /\ UNCHANGED <<server, started, buffer, pending, sent, received, decoded,
                   written, hostCalls, escaped, lifeVars>>

StopTargetsNone == {}

ClearedNothing == activeSockets

\* activeSockets.clear()
Cleared == {}

\* for (const socket of activeSockets) socket.destroy()
StopTargets == activeSockets

InFlightAfterDestroyNone(c) == {}

\* socket.destroy() ends the socket, not the executions of its data handler
\* that wait for the host: they stay suspended.
InFlightAfterDestroy(c) == pending[c]

\* stopServer(): nothing when there is no listener.
StopServer ==
    /\ returned' = Returned("stop", UNDEF)
    /\ IF ~HasServer
       THEN UNCHANGED <<server, activeSockets, sock, wire, listening, live,
                        log, pending>>
       ELSE /\ pending' = [c \in Sockets |->
                             IF c \in StopTargets
                             THEN InFlightAfterDestroy(c) ELSE pending[c]]
            /\ sock' = [c \in Sockets |->
                          IF c \in StopTargets /\ sock[c] = "open"
                          THEN "destroyed" ELSE sock[c]]
            /\ wire' = [c \in Sockets |->
                          IF c \in StopTargets THEN << >> ELSE wire[c]]
            /\ activeSockets' = Cleared
            /\ live' = live \ {server}
            /\ server' = 0
            /\ listening' = FALSE
            /\ log' = Append(log, [level |-> "info",
                                   msg |-> <<"TCP server stopped">>,
                                   port |-> port])
    /\ UNCHANGED <<started, buffer, sent, received, decoded,
                   written, hostCalls, escaped, env, port, acceptedBy,
                   sceneVars>>

\* methods.status()
status ==
    [running |-> server # 0, port |-> getPort(env),
     clients |-> Cardinality(activeSockets)]

Status ==
    /\ returned' = Returned("status", Some(status))
    /\ UNCHANGED <<server, started, activeSockets, sock, buffer, pending,
                   wire, sent, received, decoded, written, hostCalls,
                   escaped, env, port, listening, live, log, acceptedBy,
                   sceneVars>>

\* The override or the profile value changes.
SetEnv(e) ==
    /\ env' = e
    /\ UNCHANGED <<server, started, activeSockets, sock, buffer, pending,
                   wire, sent, received, decoded, written, hostCalls,
                   escaped, port, listening, live, log, acceptedBy, returned,
                   sceneVars>>

\* What the scene script leaves alone: the whole of the main process.
mainVars ==
    <<server, started, activeSockets, sock, buffer, pending, wire, sent,
      received, decoded, written, hostCalls, escaped, env, port, listening,
      live, log, acceptedBy, returned>>

\* The editor opens a scene (a new one, or one that was made in the editor
\* before), or closes the one that is open.
OpenScene(g) ==
    /\ scene = UNDEF
    /\ scene' = Some(g)
    /\ UNCHANGED <<sceneResult, sceneCalls, mainVars>>

CloseScene ==
    /\ scene # UNDEF
    /\ scene' = UNDEF
    /\ UNCHANGED <<sceneResult, sceneCalls, mainVars>>

\* The host runs a method of the scene script.
SceneCall(method, params) ==
    LET r == SceneScript(method, scene, params) IN
    /\ scene' = r.scene
    /\ sceneResult' = r.out
    /\ sceneCalls' = sceneCalls + 1
    /\ UNCHANGED mainVars

\* A client can write to its end of connection c, having sent less than
\* `limit` times.
CanSend(c, limit) ==
    /\ sock[c] = "open"
    /\ sent < limit

\* A client writes `bytes` to its end of connection c.
ClientSend(c, bytes) ==
    /\ Len(wire[c]) + Len(bytes) <= MaxChunk
    /\ wire' = [wire EXCEPT ![c] = @ \o bytes]
    /\ sent' = sent + 1
    /\ UNCHANGED <<server, started, activeSockets, sock, buffer, pending,
                   received, decoded, written, hostCalls, escaped, lifeVars>>

--------------------------------------------------------------------------
(* The requests the clients send.                                          *)

pingReq == JObject(Some(1), Some(pingName), UNDEF)
sceneReq == JObject(Some(2), Some(scenePrefix \o listNodesName), Some(emptyParams))
assetsReq == JObject(Some(3), Some(assetsPrefix \o <<"f", "i", "n", "d">>), UNDEF)

\* SpecDispatch: one request, its method concatenated from at most MaxPieces
\* of these pieces.
Pieces ==
    {pingName, executeName, scenePrefix, assetsPrefix, editorPrefix,
     listNodesName, <<"s", "c", "e", "n", "e">>, <<".">>, <<"x">>}
RECURSIVE Concats(_)
Concats(n) ==
    IF n = 0 THEN {<< >>}
    ELSE LET shorter == Concats(n - 1)
         IN  shorter \cup {p \o q : p \in shorter, q \in Pieces}
Methods == Concats(MaxPieces)
ParamsValues ==
    {UNDEF, Some(emptyParams), Some(mainNoReturn), Some(mainReturn),
     Some(sceneCode), Some(otherScope), Some(scopeOnly), Some(codeOnly),
     Some(JArray(<<emptyParams, JNull>>)), Some(JNull)}
DispatchRequests ==
    {JObject(Some(id), Some(m), ps) :
        id \in {4, 5}, m \in Methods, ps \in ParamsValues}

\* Spec: whole lines, on two connections of one listener (SpecLife starts
\* the server again).
LineTexts == {<<Json(sceneReq)>>, <<Json(assetsReq)>>, <<JUNK>>}

\* SpecFrame: single bytes, on one connection.
FrameAlphabet == {NL, SP, JUNK, Json(pingReq), Json(sceneReq), Json(JNull)}

--------------------------------------------------------------------------
(* The specifications.                                                     *)

Next ==
    \/ started = 0 /\ StartServer("ok")
    \/ StopServer
    \/ \E c \in Sockets : Accept(c)
    \/ \E c \in Sockets : Close(c)
    \/ \E c \in Sockets : SocketError(c)
    \/ \E c \in Sockets :
          /\ CanSend(c, MaxLines)
          /\ \E line \in LineTexts : ClientSend(c, line \o <<NL>>)
    \/ \E c \in Sockets : Data(c)
    \/ \E c \in Sockets : \E p \in pending[c] : \E o \in ValueOutcomes :
          Settle(c, p, o)

Spec == Init /\ [][Next]_vars

NextFrame ==
    \/ StartServer("ok")
    \/ Accept("A")
    \/ /\ CanSend("A", MaxBytes)
       /\ \E byte \in FrameAlphabet : ClientSend("A", <<byte>>)
    \/ Data("A")
    \/ \E p \in pending["A"] : \E o \in HostOutcomes : Settle("A", p, o)

SpecFrame == Init /\ [][NextFrame]_vars

NextDispatch ==
    \/ StartServer("ok")
    \/ Accept("A")
    \/ /\ CanSend("A", 1)
       /\ \E req \in DispatchRequests : ClientSend("A", <<Json(req), NL>>)
    \/ Data("A")
    \/ \E p \in pending["A"] : \E o \in HostOutcomes : Settle("A", p, o)

SpecDispatch == Init /\ [][NextDispatch]_vars

\* SpecShape: one connection, requests that lack fields and a JSON value
\* that is no object (SpecFrame sends null).
JNumber == [type |-> "number"]
ShapeRequests ==
    {pingReq,
     JObject(UNDEF, Some(pingName), UNDEF),
     JObject(UNDEF, Some(scenePrefix \o listNodesName), UNDEF),
     JObject(Some(6), UNDEF, UNDEF),
     JObject(UNDEF, UNDEF, UNDEF),
     JNumber}

\* The ways the host settles a call in SpecShape: also with an Error that
\* has an empty message, with a string, with the empty string and with
\* undefined.
ShapeOutcomes ==
    HostOutcomes \cup
    {Rejected(<< >>), RejectedWith(<<"boom">>), RejectedWith(<< >>),
     RejectedWith(<<"undefined">>)}

NextShape ==
    \/ StartServer("ok")
    \/ Accept("A")
    \/ /\ CanSend("A", MaxLines)
       /\ \E req \in ShapeRequests : ClientSend("A", <<Json(req), NL>>)
    \/ Data("A")
    \/ \E p \in pending["A"] : \E o \in ShapeOutcomes : Settle("A", p, o)

SpecShape == Init /\ [][NextShape]_vars

\* SpecLife: the server's life, with binds that fail, a port that listen
\* refuses, an override that changes, and connections that hold a partial
\* line.
LifeEnvs ==
    {DefaultEnv,
     Env(Some(<<"8", "8">>), ProfileUnavailable),
     Env(Some(<<"8", "8", "8", "8", "8">>), ProfileUnavailable)}

NextLife ==
    \/ \E bind \in BindOutcomes : StartServer(bind)
    \/ StopServer
    \/ Status
    \/ \E e \in LifeEnvs : SetEnv(e)
    \/ \E c \in Sockets : Accept(c)
    \/ \E c \in Sockets : Close(c)
    \/ \E c \in Sockets : SocketError(c)
    \/ \E c \in Sockets : CanSend(c, 1) /\ ClientSend(c, <<JUNK>>)
    \/ \E c \in Sockets : Data(c)

SpecLife == Init /\ [][NextLife]_vars

\* SpecStop: the server's life with a request in flight: listeners that
\* bind or fail to, connections that come and go, and one request whose
\* host call settles at any moment, also after stop() and a new start().
NextStop ==
    \/ \E bind \in {"ok", "EADDRINUSE"} : StartServer(bind)
    \/ StopServer
    \/ \E c \in Sockets : Accept(c)
    \/ \E c \in Sockets : Close(c)
    \/ \E c \in Sockets : SocketError(c)
    \/ \E c \in Sockets :
          CanSend(c, 1) /\ ClientSend(c, <<Json(sceneReq), NL>>)
    \/ \E c \in Sockets : Data(c)
    \/ \E c \in Sockets : \E p \in pending[c] : \E o \in ValueOutcomes :
          Settle(c, p, o)

SpecStop == Init /\ [][NextStop]_vars

\* SpecTail: single tokens on one connection that the peer can close.
TailAlphabet == {NL, SP, JUNK, Json(sceneReq)}

NextTail ==
    \/ StartServer("ok")
    \/ Accept("A")
    \/ Close("A")
    \/ /\ CanSend("A", MaxBytes)
       /\ \E byte \in TailAlphabet : ClientSend("A", <<byte>>)
    \/ Data("A")
    \/ \E p \in pending["A"] : \E o \in ValueOutcomes : Settle("A", p, o)

SpecTail == Init /\ [][NextTail]_vars

\* SpecPort: getPort on every override and profile.
PortChars == {"8", " ", "x"}

RECURSIVE Texts(_)
Texts(n) ==
    IF n = 0 THEN {<< >>}
    ELSE Texts(n - 1) \cup
         {Append(t, ch) : t \in Texts(n - 1), ch \in PortChars}

Overrides == {UNDEF} \cup {Some(t) : t \in Texts(MaxPortText)}

ProfileResults ==
    {JSUndefined, JSNull, JSBoolean(TRUE), JSObject, JSNumber(9000), JSNaN,
     JSInfinity, JSString(<<"7">>), JSString(<<"x">>), JSString(<< >>),
     JSString(<<" ">>)}

Profiles ==
    {ProfileUnavailable, ProfileThrows} \cup
    {ProfileValue(v) : v \in ProfileResults}

InitPort == \E o \in Overrides : \E pr \in Profiles : InitEnv(Env(o, pr))

NextPort ==
    \/ StartServer("ok")
    \/ StopServer
    \/ Status

SpecPort == InitPort /\ [][NextPort]_vars

\* SpecScene: the scene script, called with and without an open scene.
\* A scene that was made before: node 1, which has an Animation, and node 2
\* below it.
TwoNodes ==
    [nodes |-> [n \in 0..2 |->
                   IF n = Root THEN NewNode(NoParent)
                   ELSE IF n = 1 THEN [NewNode(Root) EXCEPT !.comps = <<"cc.Animation">>]
                   ELSE NewNode(1)],
     next |-> 2]
StartScenes == {EmptyScene, TwoNodes}

\* The uuids of the calls: of the scene, of nodes, of no node.
Uuids == {UNDEF} \cup {Some(n) : n \in 0..2}
ClassInputs == {UNDEF, Some("cc.Animation"), Some("cc.Hologram")}
UIInputs == {UNDEF, Some("Label"), Some("ScrollView"), Some("Hologram")}
ColliderInputs == {Some("box"), Some("blob")}
PropsInputs == {UNDEF, Some([position |-> "ok", rotation |-> "bad", name |-> "ok"])}
ParamsFor(method) ==
    {UNDEF} \cup
    CASE method \in {"getActive"} -> {}
      [] method \in {"listNodes", "deleteNode", "addAnimation", "playAnimation",
                     "stopAnimation", "getMaterialProperty",
                     "setMaterialProperty"} ->
            {Some(Params(u, UNDEF, UNDEF, UNDEF)) : u \in Uuids}
      [] method = "createNode" ->
            {Some(Params(UNDEF, pu, UNDEF, UNDEF)) : pu \in Uuids}
      [] method \in {"duplicateNode", "moveNode"} ->
            {Some(Params(u, pu, UNDEF, UNDEF)) : u \in Uuids, pu \in Uuids}
      [] method = "createUINode" ->
            {Some(Params(UNDEF, pu, t, UNDEF)) : pu \in Uuids, t \in UIInputs}
      [] method \in {"addComponent", "removeComponent"} ->
            {Some(Params(u, UNDEF, t, UNDEF)) : u \in Uuids, t \in ClassInputs}
      [] method \in {"getNodeProps", "setNodeProps", "configureWidget",
                     "configureLayout", "configureParticleSystem"} ->
            {Some(Params(u, UNDEF, UNDEF, ps)) : u \in Uuids, ps \in PropsInputs}
      [] method \in {"getComponentProps", "setComponentProps"} ->
            {Some(Params(u, UNDEF, t, ps)) :
                u \in Uuids, t \in ClassInputs, ps \in PropsInputs}
      [] method = "addPhysicsBody" ->
            {Some(Params(u, UNDEF, t, ps)) :
                u \in Uuids, t \in ColliderInputs, ps \in PropsInputs}
      [] method = "execute" -> {Some(mainNoReturn), Some(mainReturn)}

NextScene ==
    \/ \E g \in StartScenes : OpenScene(g)
    \/ CloseScene
    \/ /\ sceneCalls < MaxCalls
       /\ \E method \in SceneMethods \cup {"execute"} :
             \E params \in ParamsFor(method) : SceneCall(method, params)

SpecScene == Init /\ [][NextScene]_vars

--------------------------------------------------------------------------
(* What the properties below are stated with.                              *)

\* The lines of a byte stream, stated without the handler's loop: the text
\* before each newline, from the previous newline on.
NewlinesOf(stream) == {i \in 1..Len(stream) : stream[i] = NL}
TerminatedLines(stream) ==
    LET nls == NewlinesOf(stream)
        StartOf(i) == IF \E j \in nls : j < i
                      THEN 1 + CHOOSE j \in nls :
                                 j < i /\ \A k \in nls : k < i => k <= j
                      ELSE 1
        NthNewline(n) == CHOOSE i \in nls : Cardinality({j \in nls : j <= i}) = n
    IN  [n \in 1..Cardinality(nls) |->
            SubSeq(stream, StartOf(NthNewline(n)), NthNewline(n) - 1)]

\* A line without the blanks around it.
Blank(line) == \A i \in 1..Len(line) : line[i] = SP
Trimmed(line) ==
    IF Blank(line) THEN << >>
    ELSE LET first == CHOOSE i \in 1..Len(line) :
                          line[i] # SP /\ \A j \in 1..(i - 1) : line[j] = SP
             last == CHOOSE i \in 1..Len(line) :
                          line[i] # SP /\ \A j \in (i + 1)..Len(line) : line[j] = SP
         IN  SubSeq(line, first, last)

\* L1 .. Ln of a stream: its terminated lines, trimmed, the empty ones left out.
ExpectedLines(stream) ==
    LET all == TerminatedLines(stream)
        kept == SelectSeq(all, LAMBDA l : ~Blank(l))
    IN  [i \in 1..Len(kept) |-> Trimmed(kept[i])]

IsPrefix(s, t) == Len(s) <= Len(t) /\ SubSeq(t, 1, Len(s)) = s

\* The responses written on socket d for line n of connection c.
ResponsesTo(d, c, n) ==
    {i \in 1..Len(written[d]) : written[d][i].from = c /\ written[d][i].line = n}

\* Line n of connection c parses to an object; the object.
IsObject(c, n) ==
    /\ JSONParse(decoded[c][n]).ok
    /\ JSONParse(decoded[c][n]).value.type = "object"
RequestOf(c, n) == JSONParse(decoded[c][n]).value

\* No execution of connection c's data handler is in progress.
Quiet(c) == pending[c] = {}

\* The loop of connection c stopped, with a terminated line left in the
\* buffer, only at the last line it decoded, and only because that line's
\* request waits for the host or its handling was rejected.
StoppedOnlyAtAwait(c) ==
    IndexOfNL(buffer[c], 1) # 0 =>
        /\ Len(decoded[c]) > 0
        /\ \/ <<c, Len(decoded[c])>> \in escaped
           \/ \E p \in pending[c] : p.line = Len(decoded[c])

--------------------------------------------------------------------------
(* C1.  Line framing does not depend on the chunk boundaries: whenever no  *)
(* handler of a connection is waiting, the lines given to the decoder are  *)
(* exactly the trimmed, non-empty terminated lines of the bytes received,  *)
(* in order.  Stated as the claim states it; the code violates it.         *)
C1_FramingIndependentOfChunks ==
    \A c \in Sockets : Quiet(c) => decoded[c] = ExpectedLines(received[c])


(* C1: the same stream, null and then a ping, cut after the first line: the *)
(* ping is decoded, which it is not when both lines come in one chunk.      *)
C1_SecondChunkDecodesTheRest ==
    /\ received["A"] = <<Json(JNull), NL, Json(pingReq), NL>>
    /\ decoded["A"] = <<<<Json(JNull)>>, <<Json(pingReq)>>>>

--------------------------------------------------------------------------
(* C2.  Every non-empty line received on a connection is answered: once    *)
(* the connection is open and none of its handlers is waiting any more,    *)
(* exactly one response has been written on it for each such line.  Stated *)
(* as the claim states it; the code violates it.                           *)
C2_EveryLineAnswered ==
    \A c \in Sockets :
        (sock[c] = "open" /\ Quiet(c)) =>
            \A n \in 1..Len(ExpectedLines(received[c])) :
                Cardinality(ResponsesTo(c, c, n)) = 1

--------------------------------------------------------------------------
(* C3.  No error raised while processing a request escapes the             *)
(* request/response cycle: no promise of the data handler is rejected, and *)
(* the handler stops before a buffered line only to wait for the host.     *)
(* Stated as the claim states it; the code violates it.                    *)
C3_NoErrorEscapes ==
    /\ escaped = {}
    /\ \A c \in Sockets : IndexOfNL(buffer[c], 1) # 0 => pending[c] # {}

--------------------------------------------------------------------------
(* C4.  A step in which a line that is not valid JSON is decoded writes    *)
(* exactly one response for it on its connection, with id -1 and an error  *)
(* and no result, before the response to any later line; it leaves the     *)
(* connection as open and as registered as it was; and it does not stop at *)
(* that line: a later line was decoded after it in the same step, or the   *)
(* buffer holds no terminated line any more.                               *)
BadLineAnswered(c, n) ==
    LET to == ResponsesTo(c, c, n)' IN
    /\ Cardinality(to) = 1
    /\ \A i \in to :
          /\ DOMAIN written'[c][i].resp = {"id", "error"}
          /\ written'[c][i].resp.id = -1
          /\ \A j \in 1..Len(written'[c]) :
                written'[c][j].line > n => j > i
    /\ \A d \in Sockets \ {c} : ResponsesTo(d, c, n)' = {}
C4_BadLineStep ==
    \A c \in Sockets :
        \A n \in (Len(decoded[c]) + 1)..Len(decoded'[c]) :
            ~JSONParse(decoded'[c][n]).ok =>
                /\ BadLineAnswered(c, n)
                /\ sock'[c] = sock[c]
                /\ (c \in activeSockets') = (c \in activeSockets)
                /\ n < Len(decoded'[c]) \/ IndexOfNL(buffer'[c], 1) = 0
C4_BadJsonIsolated == [][C4_BadLineStep]_vars

(* C4: a bad line and then a ping were decoded on a connection, and the   *)
(* id -1 error and then the pong were written to it.                       *)
C4_BadThenPing ==
    \E c \in Sockets :
        /\ decoded[c] = <<<<JUNK>>, <<Json(pingReq)>>>>
        /\ Len(written[c]) = 2
        /\ written[c][1].resp.id = -1
        /\ written[c][2].resp = [id |-> 1, result |-> "pong"]
        /\ c \in activeSockets

--------------------------------------------------------------------------
(* C5.  Id echo: every response written for a line that parsed carries the *)
(* id of that line's request (and no id when the request has none), on the *)
(* success and on the error path, whatever else is in flight; a response   *)
(* to a line JSON.parse rejected carries id -1.                            *)
C5_IdEcho ==
    \A d \in Sockets : \A i \in 1..Len(written[d]) :
        LET w == written[d][i]
            parsed == JSONParse(decoded[w.from][w.line])
        IN  IF parsed.ok
            THEN LET id == ReqField(parsed.value, "id") IN
                 /\ ("id" \in DOMAIN w.resp) = (id # UNDEF)
                 /\ id # UNDEF => w.resp.id = id[1]
            ELSE w.resp.id = -1

(* C5: two requests were in flight on one connection and the later one was *)
(* answered first, one with a result and one with an error.                *)
C5_AnsweredOutOfOrder ==
    \E c \in Sockets :
        /\ Len(written[c]) = 2
        /\ written[c][1].line = 2 /\ written[c][1].resp.id = 3
        /\ written[c][2].line = 1 /\ written[c][2].resp.id = 2
        /\ "result" \in DOMAIN written[c][1].resp
        /\ "error" \in DOMAIN written[c][2].resp

--------------------------------------------------------------------------
(* C6.  Every response written has exactly one of the fields result and    *)
(* error.  Stated as the claim states it; the code violates it.            *)
C6_ExactlyOneOfResultAndError ==
    \A d \in Sockets : \A i \in 1..Len(written[d]) :
        ("result" \in DOMAIN written[d][i].resp)
            # ("error" \in DOMAIN written[d][i].resp)

--------------------------------------------------------------------------
(* C7.  A response is written only on the connection its line arrived on.  *)
C7_OnlyOnOrigin ==
    \A d \in Sockets : \A i \in 1..Len(written[d]) : written[d][i].from = d

(* C7: both connections were open with a request of each waiting for the   *)
(* host, and each got its response: a result on A, an error on B.          *)
C7_BothAnswered ==
    /\ activeSockets = {"A", "B"}
    /\ \E i \in 1..Len(written["A"]) : "result" \in DOMAIN written["A"][i].resp
    /\ \E i \in 1..Len(written["B"]) : "error" \in DOMAIN written["B"][i].resp
    /\ \E i \in 1..Len(hostCalls) : hostCalls[i].sock = "A"
    /\ \E i \in 1..Len(hostCalls) : hostCalls[i].sock = "B"

--------------------------------------------------------------------------
(* C8.  A line that is empty after trimming is never given to JSON.parse,  *)
(* is never dispatched and gets no response, and the loop does not stop at *)
(* it: the decoded lines are non-empty and are the first of the trimmed    *)
(* non-empty lines received, every response and host call belongs to a     *)
(* decoded line, the loop stops before a terminated line only at a decoded *)
(* line that waits or was rejected, and the bytes \n\n{ping}\n\n give one  *)
(* decoded line and one response.                                          *)
C8_EmptyLinesSkipped ==
    \A c \in Sockets :
        /\ \A n \in 1..Len(decoded[c]) : decoded[c][n] # << >>
        /\ IsPrefix(decoded[c], ExpectedLines(received[c]))
        /\ \A d \in Sockets : \A i \in 1..Len(written[d]) :
              written[d][i].from = c => written[d][i].line \in 1..Len(decoded[c])
        /\ \A i \in 1..Len(hostCalls) :
              hostCalls[i].sock = c => hostCalls[i].line \in 1..Len(decoded[c])
        /\ StoppedOnlyAtAwait(c)
        /\ received[c] = <<NL, NL, Json(pingReq), NL, NL>> =>
              /\ decoded[c] = <<<<Json(pingReq)>>>>
              /\ Len(written[c]) = 1
              /\ buffer[c] = << >>

(* C8: the bytes \n\n{ping}\n\n were received and answered once.           *)
C8_PingBetweenEmptyLines ==
    /\ received["A"] = <<NL, NL, Json(pingReq), NL, NL>>
    /\ Len(written["A"]) = 1
    /\ written["A"][1].resp = [id |-> 1, result |-> "pong"]

--------------------------------------------------------------------------
(* C9.  A request whose method is not exactly "ping", not exactly          *)
(* "execute" and does not start with "scene.", "assets." or "editor." gets *)
(* exactly one response, on its connection, with the request's id, no      *)
(* result and the error message "Unknown method: " followed by the method  *)
(* as it was sent; and no call to the host is made for it.                 *)
NamespacePrefixes == {scenePrefix, assetsPrefix, editorPrefix}
IsUnrouted(m) ==
    /\ m # pingName
    /\ m # executeName
    /\ \A prefix \in NamespacePrefixes : ~StartsWith(m, prefix)
C9_UnknownMethod ==
    \A c \in Sockets : \A n \in 1..Len(decoded[c]) :
        (IsObject(c, n) /\ IsUnrouted(RequestOf(c, n).method[1])) =>
            /\ Cardinality(ResponsesTo(c, c, n)) = 1
            /\ \A i \in ResponsesTo(c, c, n) :
                  written[c][i].resp =
                      [id |-> RequestOf(c, n).id[1],
                       error |-> [message |->
                           <<"Unknown method: ">> \o RequestOf(c, n).method[1]]]
            /\ \A i \in 1..Len(hostCalls) :
                  ~(hostCalls[i].sock = c /\ hostCalls[i].line = n)

(* C9: a request with the method ".scene." (a prefix that is not at the    *)
(* start of the method) was answered.                                      *)
C9_UnroutedAnswered ==
    \E n \in 1..Len(decoded["A"]) :
        /\ IsObject("A", n)
        /\ RequestOf("A", n).method[1] = <<".">> \o scenePrefix
        /\ ResponsesTo("A", "A", n) # {}

--------------------------------------------------------------------------
(* C10.  Namespace stripping: a request whose method starts with one of    *)
(* the prefixes "scene.", "assets.", "editor." makes exactly one call, to  *)
(* the handler of that prefix, with the method less that prefix and with   *)
(* the request's params.  This is required of every prefix the method      *)
(* starts with, so it can hold only if no method starts with two of them.  *)
HandlerOf(prefix) ==
    CASE prefix = scenePrefix -> "scene"
      [] prefix = assetsPrefix -> "assets"
      [] prefix = editorPrefix -> "editor"
CallsFor(c, n) ==
    {i \in 1..Len(hostCalls) : hostCalls[i].sock = c /\ hostCalls[i].line = n}
C10_NamespaceStripping ==
    \A c \in Sockets : \A n \in 1..Len(decoded[c]) :
        IsObject(c, n) =>
            \A prefix \in NamespacePrefixes :
                StartsWith(RequestOf(c, n).method[1], prefix) =>
                    /\ Cardinality(CallsFor(c, n)) = 1
                    /\ \A i \in CallsFor(c, n) :
                          /\ hostCalls[i].call.handler = HandlerOf(prefix)
                          /\ hostCalls[i].call.method =
                                SubSeq(RequestOf(c, n).method[1],
                                       Len(prefix) + 1,
                                       Len(RequestOf(c, n).method[1]))
                          /\ hostCalls[i].call.params = RequestOf(c, n).params

(* C10: "scene.listNodes" with params {} was dispatched to the scene       *)
(* handler with the method "listNodes" and those params.                   *)
C10_SceneListNodes ==
    \E i \in 1..Len(hostCalls) :
        /\ RequestOf(hostCalls[i].sock, hostCalls[i].line).method[1]
              = scenePrefix \o listNodesName
        /\ hostCalls[i].call.handler = "scene"
        /\ hostCalls[i].call.method = listNodesName
        /\ hostCalls[i].call.params = Some(emptyParams)

--------------------------------------------------------------------------
(* C11.  Ping: a request whose method is exactly "ping" gets exactly one   *)
(* response, the result "pong" with the request's id, whatever its params  *)
(* are, and no call to the host is made for it.  The two exact names are   *)
(* not routed by prefix: the only call a request named "execute" makes is  *)
(* execute's own delegation to the scene script, under the name "execute". *)
C11_PingPong ==
    \A c \in Sockets : \A n \in 1..Len(decoded[c]) :
        IsObject(c, n) =>
            /\ RequestOf(c, n).method = Some(pingName) =>
                  /\ Cardinality(ResponsesTo(c, c, n)) = 1
                  /\ \A i \in ResponsesTo(c, c, n) :
                        written[c][i].resp =
                            [id |-> RequestOf(c, n).id[1], result |-> "pong"]
                  /\ CallsFor(c, n) = {}
            /\ RequestOf(c, n).method = Some(executeName) =>
                  \A i \in CallsFor(c, n) :
                      /\ hostCalls[i].call.handler = "scene"
                      /\ hostCalls[i].call.method = executeName
                      /\ RequestOf(c, n).params[1].scope = Some("scene")

(* C11: a ping that carried params was answered with "pong".               *)
C11_PingWithParams ==
    \E n \in 1..Len(decoded["A"]) :
        /\ IsObject("A", n)
        /\ RequestOf("A", n).method = Some(pingName)
        /\ RequestOf("A", n).params = Some(sceneCode)
        /\ \E i \in ResponsesTo("A", "A", n) :
              written["A"][i].resp.result = "pong"

--------------------------------------------------------------------------
(* The server's life: what the claims below speak of.                      *)

\* The log lines that say a listener is listening.
ListeningLogs == {i \in 1..Len(log) : log[i].msg[1] = "TCP server listening on 127.0.0.1:"}

\* A step is a call of start() / of stop().
IsStart == \E bind \in BindOutcomes : StartServer(bind)
IsStop == StopServer

\* What a call that does nothing leaves as it was: everything but the
\* record of the call itself.
NothingChanged ==
    UNCHANGED <<server, started, activeSockets, sock, buffer, pending, wire,
                sent, received, decoded, written, hostCalls, escaped, env,
                port, listening, live, log, acceptedBy, sceneVars>>

--------------------------------------------------------------------------
(* C12.  start() is idempotent: a call of start() while a listener exists  *)
(* returns and changes nothing (no new listener, no bind, no log line); at *)
(* every moment at most one listener exists, and it is the one `server`    *)
(* refers to; and no listener logs "listening" twice: there are never more *)
(* "listening" lines than listeners made, and a start() that makes a       *)
(* listener whose bind succeeds logs exactly one.                          *)
C12_OneListener ==
    /\ Cardinality(live) <= 1
    /\ live = (IF server = 0 THEN {} ELSE {server})
    /\ Cardinality(ListeningLogs) <= started
C12_StartStep ==
    /\ (IsStart /\ server # 0) => (NothingChanged /\ ~returned'.threw)
    /\ (StartServer("ok") /\ server = 0 /\ ValidPort(getPort(env))) =>
          /\ listening'
          /\ Len(log') = Len(log) + 1
          /\ ListeningLogs' = ListeningLogs \cup {Len(log')}
C12_StartIdempotent == []C12_OneListener /\ [][C12_StartStep]_vars

(* C12: start() has returned with its listener bound and one "listening"   *)
(* line logged; every further start() is a step from this state to itself. *)
C12_StartedOnce ==
    /\ returned = Returned("start", UNDEF)
    /\ server = 1
    /\ listening
    /\ Cardinality(ListeningLogs) = 1

--------------------------------------------------------------------------
(* C13.  stop() with a listener: every connection of the active set is     *)
(* destroyed, with the bytes it had not delivered dropped and no line      *)
(* decoded, no response written and no handler waited for; the set is      *)
(* empty, the listener is closed, and status() in the state stop() leaves  *)
(* says not running, with no connections.                                  *)
C13_StopStep ==
    (IsStop /\ server # 0) =>
        /\ \A c \in activeSockets : sock'[c] = "destroyed" /\ wire'[c] = << >>
        /\ \A c \in Sockets \ activeSockets : sock'[c] = sock[c]
        /\ activeSockets' = {}
        /\ server' = 0
        /\ live' = {}
        /\ ~listening'
        /\ UNCHANGED <<buffer, pending, decoded, written, hostCalls>>
        /\ ~returned'.threw
C13_StatusWhenStopped ==
    (server = 0 /\ returned.op = "stop") =>
        (status.running = FALSE /\ status.clients = 0)
C13_StopDestroysAll == []C13_StatusWhenStopped /\ [][C13_StopStep]_vars

(* C13: stop() has destroyed two connections.                              *)
C13_BothDestroyed ==
    /\ returned = Returned("stop", UNDEF)
    /\ server = 0
    /\ \A c \in Sockets : sock[c] = "destroyed"
    /\ activeSockets = {}

--------------------------------------------------------------------------
(* C14.  stop() without a listener returns without an exception and        *)
(* changes nothing: no log line, no socket destroyed, the same listener    *)
(* state and the same active set.                                          *)
C14_StopStep ==
    (IsStop /\ server = 0) => (NothingChanged /\ ~returned'.threw)
C14_StopWhenStoppedIsNoOp == [][C14_StopStep]_vars

(* C14: stop() has returned though no listener was ever made.              *)
C14_StoppedBeforeAnyStart ==
    /\ returned = Returned("stop", UNDEF)
    /\ started = 0
    /\ log = << >>

--------------------------------------------------------------------------
(* C15.  start() without a listener (at first, or after a stop()) makes a  *)
(* new listener, different from every earlier one, and binds it on the     *)
(* port getPort gives; when the bind succeeds the server is listening      *)
(* again.  Every connection of the active set was accepted by the listener *)
(* that exists now.                                                        *)
C15_OnlyOwnConnections ==
    \A c \in activeSockets : server # 0 /\ acceptedBy[c] = server
C15_StartStep ==
    \A bind \in BindOutcomes :
        (StartServer(bind) /\ server = 0) =>
            /\ server' # 0
            /\ server' > started
            /\ live' = {server'}
            /\ port' = getPort(env)
            /\ (bind = "ok" /\ ValidPort(getPort(env))) => listening'
            /\ activeSockets' = activeSockets
C15_Restart == []C15_OnlyOwnConnections /\ [][C15_StartStep]_vars

(* C15: the second listener is listening and has accepted a connection,    *)
(* after the first one had accepted another.                               *)
C15_SecondListenerAccepted ==
    /\ server = 2
    /\ listening
    /\ acceptedBy["A"] = 1
    /\ acceptedBy["B"] = 2
    /\ activeSockets = {"B"}

--------------------------------------------------------------------------
(* C16.  The active set is exactly the set of the connections that were    *)
(* accepted and have had no close event, no error event and no stop()      *)
(* since: the sockets that are open.  The count status() reports is their  *)
(* number.  A close or an error of a connection that is not in the set     *)
(* leaves the set as it was.                                               *)
OpenSockets == {c \in Sockets : sock[c] = "open"}
C16_ActiveIsOpen ==
    /\ activeSockets = OpenSockets
    /\ status.clients = Cardinality(OpenSockets)
C16_EventStep ==
    \A c \in Sockets :
        /\ Accept(c) => activeSockets' = activeSockets \cup {c}
        /\ (Close(c) \/ SocketError(c)) =>
              /\ c \notin activeSockets'
              /\ \A d \in Sockets \ {c} :
                    (d \in activeSockets') = (d \in activeSockets)
C16_ActiveSet == []C16_ActiveIsOpen /\ [][C16_EventStep]_vars

(* C16: one connection was removed by its error event (its close event,   *)
(* still to come, will find it removed), the other is still connected.     *)
C16_OneGoneOneLeft ==
    /\ sock["A"] = "errored"
    /\ sock["B"] = "open"
    /\ activeSockets = {"B"}

--------------------------------------------------------------------------
(* C17.  status() changes nothing (the listener, the active set, the       *)
(* sockets and every buffer are as they were) and returns: whether a       *)
(* listener is bound; the port (the one the listener was bound to while    *)
(* there is one, the one start() would use otherwise); and the number of   *)
(* active connections.                                                     *)
C17_StatusStep ==
    Status =>
        /\ NothingChanged
        /\ returned' =
              Returned("status",
                       Some([running |-> listening,
                             port |-> IF server # 0 THEN port ELSE getPort(env),
                             clients |-> Cardinality(OpenSockets)]))
C17_StatusReportsAndChangesNothing == [][C17_StatusStep]_vars

--------------------------------------------------------------------------
(* C18.  Port resolution.  A value is numeric when it is a finite number   *)
(* or a text that spells one (digits, possibly with blanks around them).   *)
(* The port start() uses is the override when it is present and numeric;   *)
(* otherwise the profile's value when the profile can be read and its      *)
(* value is numeric; otherwise 8787.                                       *)
NumericText(s) ==
    LET t == StripRight(StripLeft(s)) IN
    t # << >> /\ \A i \in 1..Len(t) : IsDigit(t[i])
Numeric(v) ==
    \/ v.t = "number" /\ v.k = "int"
    \/ v.t = "string" /\ NumericText(v.s)
ExpectedPort(e) ==
    IF e.envPort # UNDEF /\ NumericText(e.envPort[1])
    THEN JSNumber(DecimalValue(StripRight(StripLeft(e.envPort[1]))))
    ELSE IF e.profile.kind = "value" /\ Numeric(e.profile.v)
    THEN (IF e.profile.v.t = "number" THEN e.profile.v
          ELSE JSNumber(DecimalValue(StripRight(StripLeft(e.profile.v.s)))))
    ELSE JSNumber(DEFAULT_PORT)
C18_PortResolution ==
    server # 0 => port = ExpectedPort(env)

--------------------------------------------------------------------------
(* C19.  A bind that fails is logged, with the hint that names             *)
(* COCOS_MCP_PORT when (and only when) the address is in use; start()      *)
(* returns without an exception and touches no connection; and stop() and  *)
(* status() called afterwards return without an exception, stop() leaving  *)
(* no listener.                                                            *)
HintLogs == {i \in 1..Len(log) : log[i].msg[1] = "Port is already in use. "}
ErrorLogs == {i \in 1..Len(log) : log[i].msg[1] = "TCP server error: "}
C19_BindStep ==
    /\ \A bind \in BindOutcomes \ {"ok"} :
          (StartServer(bind) /\ server = 0 /\ ValidPort(getPort(env))) =>
              /\ ~returned'.threw
              /\ ~listening'
              /\ ErrorLogs' = ErrorLogs \cup {Len(log) + 1}
              /\ log'[Len(log) + 1].msg[2] = bind
              /\ HintLogs' = HintLogs \cup
                    (IF bind = "EADDRINUSE" THEN {Len(log) + 2} ELSE {})
              /\ \A i \in HintLogs' \ HintLogs :
                    /\ log'[i].msg[2] = "Set COCOS_MCP_PORT to a different port."
                    /\ log'[i].port = getPort(env)
              /\ UNCHANGED <<activeSockets, sock, buffer, pending, written>>
    /\ (IsStop /\ server # 0 /\ ~listening) =>
          (server' = 0 /\ live' = {} /\ ~returned'.threw)
    /\ (Status /\ server # 0 /\ ~listening) =>
          (~returned'.threw /\ returned'.value # UNDEF)
C19_BindFailure == [][C19_BindStep]_vars

(* C19: a bind failed because the address was in use, the failure and the  *)
(* hint were logged, stop() was called and logged, and status() returned.  *)
C19_FailedStoppedAsked ==
    /\ Len(log) = 3
    /\ ErrorLogs = {1}
    /\ HintLogs = {2}
    /\ log[3].msg[1] = "TCP server stopped"
    /\ returned.op = "status"
    /\ ~returned.threw

--------------------------------------------------------------------------
(* C20.  Without an open scene, every method of the scene script that      *)
(* works on nodes or components ends with the error "No active scene",     *)
(* whatever its params are (also none), and no scene comes to exist.       *)
C20_Step ==
    scene = UNDEF =>
        \A method \in SceneMethods : \A params \in ParamsFor(method) :
            SceneCall(method, params) =>
                /\ sceneResult' = Throw(<<"No active scene">>)
                /\ scene' = UNDEF
C20_NoActiveScene == [][C20_Step]_vars

(* C20: the second call of a method found no scene open and ended with   *)
(* "No active scene".                                                    *)
C20_CalledWithoutScene ==
    /\ scene = UNDEF
    /\ sceneCalls = 2
    /\ sceneResult = Throw(<<"No active scene">>)

--------------------------------------------------------------------------
(* C21.  While the handler of a line of a connection waits for the host,    *)
(* the lines after it are not held back: every terminated line received on  *)
(* the connection, in the same chunk or in a later one, has been given to   *)
(* the decoder.  Stated as the claim states it; the code violates it.       *)
C21_NextLineNotHeldBack ==
    \A c \in Sockets :
        pending[c] # {} => decoded[c] = ExpectedLines(received[c])

--------------------------------------------------------------------------
(* C22.  Within one connection the lines are given to the decoder in the   *)
(* order in which they arrived, and their requests are handed to the host  *)
(* in that order, also when executions of the data handler overlap.        *)

\* The lines of connection c whose requests were handed to the host, in the
\* order of the calls.
DispatchedLines(c) ==
    LET mine == SelectSeq(hostCalls, LAMBDA h : h.sock = c)
    IN  [i \in 1..Len(mine) |-> mine[i].line]

C22_ArrivalOrder ==
    \A c \in Sockets :
        /\ IsPrefix(decoded[c], ExpectedLines(received[c]))
        /\ \A i, j \in 1..Len(DispatchedLines(c)) :
              i < j => DispatchedLines(c)[i] < DispatchedLines(c)[j]

(* C22: a second chunk arrived while the handler of the first line was     *)
(* awaited: two executions of the data handler are suspended, on the first *)
(* and on the second line.                                                 *)
C22_TwoExecutionsOverlap ==
    /\ {p.line : p \in pending["A"]} = {1, 2}
    /\ Len(decoded["A"]) = 2
    /\ DispatchedLines("A") = <<1, 2>>

--------------------------------------------------------------------------
(* C23.  Responses on one connection are not ordered by request; whenever  *)
(* a later line of a connection was answered before an earlier one, every  *)
(* response on the connection still carries the id of its own request.     *)

\* A response to a later line of connection c was written before the
\* response to an earlier line.
OutOfRequestOrder(c) ==
    \E i, j \in 1..Len(written[c]) :
        i < j /\ written[c][i].line > written[c][j].line

C23_OutOfOrderStillIdentified ==
    \A c \in Sockets :
        OutOfRequestOrder(c) =>
            \A i \in 1..Len(written[c]) :
                LET w == written[c][i] IN
                IsObject(w.from, w.line) =>
                    /\ "id" \in DOMAIN w.resp
                    /\ Some(w.resp.id) = ReqField(RequestOf(w.from, w.line), "id")

(* C23: the host settled the call of line 2 of connection A before the     *)
(* call of line 1: the responses were written in the order 2, 1.           *)
C23_SecondAnsweredFirst ==
    /\ Len(written["A"]) = 2
    /\ written["A"][1].line = 2
    /\ written["A"][2].line = 1
    /\ IsObject("A", 1) /\ IsObject("A", 2)
    /\ pending["A"] = {}

--------------------------------------------------------------------------
(* C24.  Neither the teardown of a connection nor stop() cancels or waits  *)
(* for a handler in flight: a step that stops the server or changes a      *)
(* socket leaves the suspended handlers as they are, and a suspended       *)
(* handler ends only by writing its response.                              *)
C24_Step ==
    /\ (server' # server \/ sock' # sock) => pending' = pending
    /\ \A c \in Sockets : \A p \in pending[c] \ pending'[c] :
          \E i \in (Len(written[c]) + 1)..Len(written'[c]) :
              written'[c][i].line = p.line

C24_NoCancellation == [][C24_Step]_vars

(* C24: stop() returned while the handler of line 1 of connection A waited *)
(* for the host; the host settled the call afterwards and the handler gave *)
(* its response to the destroyed socket.                                   *)
C24_FinishedAfterStop ==
    /\ server = 0
    /\ returned = Returned("stop", UNDEF)
    /\ sock["A"] = "destroyed"
    /\ pending["A"] = {}
    /\ Len(written["A"]) = 1
    /\ written["A"][1].line = 1
    /\ ~written["A"][1].live

--------------------------------------------------------------------------
(* C25.  A data, close or error event on one connection leaves every other *)
(* connection untouched: its buffer, its membership in the active set and  *)
(* its socket stay as they were.  The buffer of a connection changes only  *)
(* in its own data handler: when a chunk is delivered to it, or when an    *)
(* execution of the handler goes on after its await and writes.            *)

\* The step is a data, close or error event on connection c.
EventOn(c) ==
    \/ received'[c] # received[c]
    \/ sock'[c] # sock[c] /\ sock'[c] \in {"closed", "errored"}

C25_Step ==
    \A c \in Sockets :
        /\ EventOn(c) =>
              \A d \in Sockets \ {c} :
                  /\ buffer'[d] = buffer[d]
                  /\ (d \in activeSockets') = (d \in activeSockets)
                  /\ sock'[d] = sock[d]
        /\ buffer'[c] # buffer[c] =>
              \/ received'[c] # received[c]
              \/ Len(written'[c]) > Len(written[c])

C25_Isolation == [][C25_Step]_vars

(* C25: connection A had a socket error; connection B is open and         *)
(* registered, with a line in its buffer and a handler waiting.            *)
C25_OneErroredOtherIntact ==
    /\ sock["A"] = "errored"
    /\ sock["B"] = "open"
    /\ activeSockets = {"B"}
    /\ buffer["B"] # << >>
    /\ pending["B"] # {}

--------------------------------------------------------------------------
(* C26.  A line that is valid JSON but lacks method or lacks id is given   *)
(* to the request/response cycle and is answered with an error response:   *)
(* every response to it has an error and no result, and once no handler of *)
(* the connection waits it has a response.  Stated as the claim states it; *)
(* the code violates it.                                                   *)
LacksMethodOrId(c, n) ==
    /\ JSONParse(decoded[c][n]).ok
    /\ \/ ReqField(RequestOf(c, n), "method") = UNDEF
       \/ ReqField(RequestOf(c, n), "id") = UNDEF

C26_IncompleteRequestGetsError ==
    \A c \in Sockets : \A n \in 1..Len(decoded[c]) :
        LacksMethodOrId(c, n) =>
            /\ \A i \in ResponsesTo(c, c, n) :
                  /\ "error" \in DOMAIN written[c][i].resp
                  /\ "result" \notin DOMAIN written[c][i].resp
            /\ Quiet(c) => ResponsesTo(c, c, n) # {}

--------------------------------------------------------------------------
(* C27.  When the call of a namespace handler is rejected, the message of  *)
(* the error response is the handler's message verbatim: the message of    *)
(* the Error, the empty one too, and the rejection value itself when it is *)
(* no Error.  Stated as the claim states it; the code violates it.         *)

\* The response the step wrote first on connection c: the one of the
\* handler that went on (the responses of the lines after it follow).
FirstWritten(c) == written'[c][Len(written[c]) + 1].resp

\* The message a rejection carries.
MessageOf(o) == IF o.kind = "reject" THEN o.message ELSE o.text

C27_VerbatimStep ==
    \A c \in Sockets : \A p \in pending[c] : \A o \in ShapeOutcomes :
        (o.kind # "resolve" /\ Settle(c, p, o)) =>
            /\ "error" \in DOMAIN FirstWritten(c)
            /\ "result" \notin DOMAIN FirstWritten(c)
            /\ FirstWritten(c).error.message = MessageOf(o)
C27_MessageVerbatim == [][C27_VerbatimStep]_vars

(* C27, amended.  The message of the error response is the message of the  *)
(* Error verbatim when that message is not empty; an Error with an empty   *)
(* message is reported as "Error" (its String()), and a rejection value    *)
(* that has no message as its String().                                    *)
C27_AmendedStep ==
    \A c \in Sockets : \A p \in pending[c] : \A o \in ShapeOutcomes :
        (o.kind # "resolve" /\ Settle(c, p, o)) =>
            /\ "error" \in DOMAIN FirstWritten(c)
            /\ "result" \notin DOMAIN FirstWritten(c)
            /\ FirstWritten(c).error.message =
                  IF o.kind = "reject" /\ o.message = << >>
                  THEN <<"Error">> ELSE MessageOf(o)
C27_MessageVerbatimUnlessEmpty == [][C27_AmendedStep]_vars

(* C27: the host rejected a call with an Error whose message is empty, and *)
(* the response says "Error".                                              *)
C27_EmptyMessageReported ==
    \E i \in 1..Len(written["A"]) :
        /\ "error" \in DOMAIN written["A"][i].resp
        /\ written["A"][i].resp.error.message = <<"Error">>

--------------------------------------------------------------------------
(* C28.  A scene.* request reaches the scene script whatever its params:   *)
(* exactly one request is made to the host for it, with an empty argument  *)
(* list when the request has no params, with the array itself when params  *)
(* is an array, and with params as the single argument otherwise.          *)
IsSceneRequest(c, n) ==
    /\ IsObject(c, n)
    /\ RequestOf(c, n).method # UNDEF
    /\ StartsWith(RequestOf(c, n).method[1], scenePrefix)

C28_SceneArguments ==
    \A c \in Sockets : \A n \in 1..Len(decoded[c]) :
        IsSceneRequest(c, n) =>
            /\ Cardinality(CallsFor(c, n)) = 1
            /\ \A i \in CallsFor(c, n) :
                  LET ps == RequestOf(c, n).params
                      args == hostCalls[i].call.args
                  IN  /\ hostCalls[i].call.handler = "scene"
                      /\ ps = UNDEF => args = << >>
                      /\ (ps # UNDEF /\ ps[1].type = "array") =>
                            args = ps[1].items
                      /\ (ps # UNDEF /\ ps[1].type # "array") =>
                            Len(args) = 1 /\ args[1] = ps[1]

(* C28: a scene request whose params is an array of two values was handed  *)
(* to the scene script with those two arguments.                           *)
C28_ArrayPassedAsArguments ==
    \E i \in 1..Len(hostCalls) :
        /\ hostCalls[i].call.handler = "scene"
        /\ hostCalls[i].call.params = Some(JArray(<<emptyParams, JNull>>))
        /\ hostCalls[i].call.args = <<emptyParams, JNull>>

--------------------------------------------------------------------------
(* C29.  execute runs code only in the scopes "scene" and "main".  A       *)
(* request "execute" whose params lack a string scope or a string code is  *)
(* answered with the error "execute requires { scope, code, args? }", one  *)
(* with any other scope with "Unknown execute scope: <scope>", and in both *)
(* cases no request is made to the host and no result of any code is       *)
(* answered.  Scope "scene" makes one request to the scene script's        *)
(* execute with the params as its argument; scope "main" makes no request  *)
(* to the host and answers with what the code returned.                    *)
IsExecute(c, n) ==
    /\ IsObject(c, n)
    /\ RequestOf(c, n).method = Some(executeName)

\* params of an execute request have a string scope and a string code.
HasScopeAndCode(ps) ==
    /\ ps # UNDEF
    /\ ps[1].type = "object"
    /\ ps[1].scope # UNDEF
    /\ ps[1].code # UNDEF

\* Line n of c got one response, an error with this message, and no request
\* to the host was made for it.
FailedWith(c, n, message) ==
    /\ CallsFor(c, n) = {}
    /\ Cardinality(ResponsesTo(c, c, n)) = 1
    /\ \A i \in ResponsesTo(c, c, n) :
          /\ "result" \notin DOMAIN written[c][i].resp
          /\ "error" \in DOMAIN written[c][i].resp
          /\ written[c][i].resp.error.message = message

C29_ExecuteScopes ==
    \A c \in Sockets : \A n \in 1..Len(decoded[c]) :
        IsExecute(c, n) =>
            LET ps == RequestOf(c, n).params IN
            IF ~HasScopeAndCode(ps)
            THEN FailedWith(c, n, <<"execute requires { scope, code, args? }">>)
            ELSE IF ps[1].scope = Some("scene")
            THEN /\ Cardinality(CallsFor(c, n)) = 1
                 /\ \A i \in CallsFor(c, n) :
                       /\ hostCalls[i].call.handler = "scene"
                       /\ hostCalls[i].call.method = executeName
                       /\ hostCalls[i].call.args = <<ps[1]>>
            ELSE IF ps[1].scope = Some("main")
            THEN /\ CallsFor(c, n) = {}
                 /\ Cardinality(ResponsesTo(c, c, n)) = 1
                 /\ \A i \in ResponsesTo(c, c, n) :
                       /\ "error" \notin DOMAIN written[c][i].resp
                       /\ ps[1].code = Some("return 'ok'") =>
                             written[c][i].resp.result = "ok"
            ELSE FailedWith(c, n, <<"Unknown execute scope: ", ps[1].scope[1]>>)

(* C29: an execute request with the scope "panel" was answered with        *)
(* "Unknown execute scope: panel", and no request went to the host.        *)
C29_UnknownScopeRefused ==
    /\ Len(decoded["A"]) = 1
    /\ IsExecute("A", 1)
    /\ RequestOf("A", 1).params = Some(otherScope)
    /\ FailedWith("A", 1, <<"Unknown execute scope: ", "panel">>)

--------------------------------------------------------------------------
(* C30.  Overlapping executions of a connection's data handler never lose, *)
(* duplicate or split a line.  The bytes received are, in order, the bytes *)
(* of the lines extracted so far and then the buffer; the extracted part   *)
(* ends at a newline and its lines are the lines given to the decoder; and *)
(* every such line belongs to exactly one execution: it has one response,  *)
(* or one execution waits on it, or its handling ended in a rejection.     *)

\* The first k bytes received on c were extracted, the rest is the buffer.
ExtractedUpTo(c, k) ==
    /\ buffer[c] = SubSeq(received[c], k + 1, Len(received[c]))
    /\ k = 0 \/ received[c][k] = NL
    /\ decoded[c] = ExpectedLines(SubSeq(received[c], 1, k))

\* How many executions have or had line n of connection c.
ExecutionsOf(c, n) ==
    Cardinality(ResponsesTo(c, c, n))
    + Cardinality({p \in pending[c] : p.line = n})
    + (IF <<c, n>> \in escaped THEN 1 ELSE 0)

C30_NoLineLostDuplicatedOrSplit ==
    \A c \in Sockets :
        /\ \E k \in 0..Len(received[c]) : ExtractedUpTo(c, k)
        /\ \A n \in 1..Len(decoded[c]) : ExecutionsOf(c, n) = 1

(* C30: two executions of the handler of connection A overlapped, each on  *)
(* a request of its own; the second was answered first, both are done and  *)
(* the buffer is empty.                                                    *)
C30_OverlappedAndDone ==
    /\ Len(decoded["A"]) = 2
    /\ IsObject("A", 1) /\ IsObject("A", 2)
    /\ Len(written["A"]) = 2
    /\ written["A"][1].line = 2
    /\ written["A"][2].line = 1
    /\ pending["A"] = {}
    /\ buffer["A"] = << >>
    /\ escaped = {}

--------------------------------------------------------------------------
(* C31.  No response is given to a socket that has had its close event or  *)
(* its error event, or that stop() has destroyed: every response that was  *)
(* written was written to a socket that was open then.                     *)
C31_NoWriteAfterTeardown ==
    \A c \in Sockets : \A i \in 1..Len(written[c]) : written[c][i].live

--------------------------------------------------------------------------
(* C32.  status() says running only while the listener is bound; and a     *)
(* start() called while no listener is bound (never started, stopped, or   *)
(* the last bind failed) makes a new listener and binds it on the port     *)
(* getPort gives, instead of returning early.                              *)
C32_RunningIsBound == status.running => listening
C32_StartStep ==
    (IsStart /\ ~listening) =>
        /\ server' > started
        /\ port' = getPort(env)
C32_RunningOnlyWhileBound == []C32_RunningIsBound /\ [][C32_StartStep]_vars

--------------------------------------------------------------------------
(* C33.  Whenever there is no listener (status() says not running) the     *)
(* active set is empty, whatever the order of start(), stop(), accepts,    *)
(* data, close and error events and completions of handlers was.           *)
C33_StoppedHasNoConnections ==
    ~status.running => (activeSockets = {} /\ status.clients = 0)

(* C33: two listeners were made and stop() was the last call; connection   *)
(* A was destroyed by a stop() with its request in flight, and the handler *)
(* completed afterwards.  No listener, and an empty set.                   *)
C33_StoppedAgainAfterCompletion ==
    /\ server = 0
    /\ started = 2
    /\ returned = Returned("stop", UNDEF)
    /\ sock["A"] = "destroyed"
    /\ Len(written["A"]) = 1
    /\ ~written["A"][1].live
    /\ activeSockets = {}

--------------------------------------------------------------------------
(* C34.  While the listener is bound, the port status() reports is the     *)
(* port start() bound it to, also after the override or the profile value  *)
(* has changed.                                                            *)
C34_ReportedPortIsBoundPort == listening => status.port = port

--------------------------------------------------------------------------
(* C35.  The bytes a connection received after its last newline are never  *)
(* given to the decoder, dispatched or answered: they are the end of the   *)
(* connection's buffer, every line given to the decoder was terminated by  *)
(* a newline, and every response and every host call belongs to such a     *)
(* line.  Once the connection is not open any more no byte arrives, so the *)
(* bytes stay undecoded for good.                                          *)

\* The bytes connection c received after the last newline it received.
UnterminatedTail(c) ==
    LET nls == NewlinesOf(received[c])
        last == IF nls = {} THEN 0
                ELSE CHOOSE i \in nls : \A j \in nls : j <= i
    IN  SubSeq(received[c], last + 1, Len(received[c]))

IsSuffix(s, t) ==
    Len(s) <= Len(t) /\ SubSeq(t, Len(t) - Len(s) + 1, Len(t)) = s

C35_TailKept ==
    \A c \in Sockets :
        /\ IsSuffix(UnterminatedTail(c), buffer[c])
        /\ Len(decoded[c]) <= Len(ExpectedLines(received[c]))
        /\ \A n \in 1..Len(decoded[c]) :
              decoded[c][n] = ExpectedLines(received[c])[n]
        /\ \A i \in 1..Len(written[c]) :
              written[c][i].line \in 1..Len(decoded[c])
        /\ \A i \in 1..Len(hostCalls) :
              hostCalls[i].sock = c => hostCalls[i].line \in 1..Len(decoded[c])
C35_TailStep ==
    \A c \in Sockets :
        sock[c] \notin {"none", "open"} => received'[c] = received[c]
--------------------------------------------------------------------------
(* C36.  The port start() gives to listen is an integer from 0 to 65535    *)
(* whatever the override and the profile hold, and start() never ends with *)
(* an exception.                                                           *)
C36_PortInRange ==
    /\ server # 0 => ValidPort(port)
    /\ ~(returned.op = "start" /\ returned.threw)

--------------------------------------------------------------------------
(* C37.  A method of the scene script that ends with an error leaves the   *)
(* scene as it was: no node and no component was added, removed or         *)
(* written.  (A step that counts a call is a call of a method.)            *)
C37_Step ==
    (sceneCalls' = sceneCalls + 1 /\ sceneResult'.kind = "throw") =>
        scene' = scene
C37_FailureChangesNothing == [][C37_Step]_vars

--------------------------------------------------------------------------
(* C38.  The open scene is a tree rooted at the scene: the scene has no    *)
(* parent, every other node has a parent that is a node, no node is its    *)
(* own ancestor, and every node is reached from the scene.  (That a node   *)
(* has at most one parent is how the engine keeps a node: one parent       *)
(* field.)                                                                 *)

\* a is a proper ancestor of n: the walk up from n's parent comes to a.
IsAncestor(g, a, n) ==
    /\ g.nodes[n].parent \in DOMAIN g.nodes
    /\ Below(g, g.nodes[n].parent, a, Cardinality(DOMAIN g.nodes))

IsTree(g) ==
    /\ g.nodes[Root].parent = NoParent
    /\ \A n \in DOMAIN g.nodes \ {Root} : g.nodes[n].parent \in DOMAIN g.nodes
    /\ \A n \in DOMAIN g.nodes : ~IsAncestor(g, n, n)
    /\ \A n \in DOMAIN g.nodes :
          Below(g, n, Root, Cardinality(DOMAIN g.nodes))

C38_SceneIsTree == scene # UNDEF => IsTree(scene[1])

==========================================================================
